---------------------------- MODULE Spec2Model ----------------------------
(***************************************************************************)
(* IT_memegen_app: the resilience layer around the remote generation API.  *)
(*                                                                         *)
(* The repository holds several revisions of the same service module.      *)
(* They are told apart by a revision tag:                                   *)
(*   "p000" src/unnamed/part_000           (jittered backoff, 3 models)    *)
(*   "qa"   src/unnamed/part_001           ("[QA-...]" revision, 2 models) *)
(*   "rev1" src/services/geminiService.ts lines   1-260                    *)
(*   "rev2" src/services/geminiService.ts lines 261-501                    *)
(* and two revisions of the orchestrator: src/unnamed/part_002 (abort     *)
(* controller, timeouts, 12 s cooldown) and src/App.tsx.                   *)
(*                                                                         *)
(* Times are in milliseconds.  A text (an error message, a response text)  *)
(* is a sequence of tokens; String.includes(marker) is "some token of the  *)
(* text is the marker".                                                    *)
(*                                                                         *)
(* Specifications:                                                         *)
(*   SpecRetry    one invocation of retryWithBackoff                       *)
(*   SpecImage    one invocation of generateImageFromPrompt                *)
(*   SpecImageFair  the same, remote calls settle and timers fire          *)
(*   SpecText     one invocation of generateMemeText / generateComicScript *)
(*   SpecApp      the App component of part_002 on the service "p000":     *)
(*                the user's clicks, the runs of handleGenerate, their     *)
(*                service calls, the timers                                *)
(*   SpecAppFair  one run of SpecApp whose timers are fair                 *)
(*   SpecAppTsx   the App component of src/App.tsx on the services "qa",   *)
(*                "rev1" and "rev2"                                        *)
(*   SpecClean    cleanJson applied to a text                              *)
(*   SpecAppSingle  SpecApp on the single tab, one submission, an API that *)
(*                rejects often                                            *)
(*   SpecHistory  the history list and its copy in localStorage            *)
(*   SpecImageClock  SpecImage on "p000" with a clock                      *)
(*   SpecCaptions  the captions state of the ComicDisplay component, in    *)
(*                its two revisions: "cd1" src/components/ComicDisplay.tsx *)
(*                lines 1-189, "cd2" lines 190-410                         *)
(***************************************************************************)
EXTENDS Integers, Sequences, FiniteSets, TLC

VARIABLES
    rev,      \* the revision of the service module under test
    rt,       \* one invocation of retryWithBackoff: its position and arguments
    img,      \* one invocation of generateImageFromPrompt
    txt,      \* one invocation of generateMemeText or generateComicScript
    app,      \* the React state and refs of the App component
    runs,     \* the invocations of handleGenerate, in the order they started
    svc,      \* the service calls made by the runs, in the order they started
    env       \* what the environment may still do: runs, faults, timeouts

appVars == <<app, runs, svc, env>>

vars == <<rev, rt, img, txt, appVars>>

\* the value of a variable that a specification does not use
Unused == [pc |-> "unused"]

\* the orchestrator's variables in a specification of the service module alone
AppUnused == app = Unused /\ runs = <<>> /\ svc = <<>> /\ env = Unused

Revisions == {"p000", "qa", "rev1", "rev2"}

(***************************************************************************)
(* Bounds of the model.                                                    *)
(***************************************************************************)
MaxRetries == 4

(***************************************************************************)
(* Errors thrown by the remote API client.  status, code and ecode stand   *)
(* for error.status, error.code and error.error.code; 0 is "undefined".    *)
(***************************************************************************)
Err(status, code, ecode, msg) ==
    [status |-> status, code |-> code, ecode |-> ecode, msg |-> msg]

Errors ==
    { Err(429, 0, 0, <<"Resource", "exhausted">>),
      Err(0, 0, 0, <<"Quota", "exceeded">>),
      Err(0, 0, 429, <<"rate", "limited">>),
      Err(404, 0, 0, <<"model", "not", "found">>),
      Err(400, 0, 0, <<"invalid", "argument">>),
      Err(404, 0, 0, <<"Failed", "to", "fetch">>),
      Err(500, 0, 0, <<"Internal">>),
      Err(0, 503, 0, <<"503", "unavailable">>),
      Err(0, 0, 0, <<"network", "down">>),
      Err(0, 0, 0, <<"TypeError">>) }

NoError == Err(0, 0, 0, <<>>)

(***************************************************************************)
(* Responses of the remote API client: response.text (tokens), the parts   *)
(* of response.candidates[0].content (each with inlineData, "" when the    *)
(* part is text), and generatedImages[0].image.imageBytes ("" if absent).  *)
(***************************************************************************)
Resp(text, parts, bytes) == [text |-> text, parts |-> parts, imageBytes |-> bytes]

NoResponse == Resp(<<>>, <<>>, "")

\* String.prototype.includes on a tokenised text
includes(msg, marker) == \E i \in DOMAIN msg : msg[i] = marker

\* a || b on numbers: the first operand unless it is falsy (0, undefined)
Or2(a, b) == IF a # 0 THEN a ELSE b

\* const status = error?.status || error?.code [|| error?.response?.status]
statusOf(r, error) ==
    IF r = "rev2" THEN error.status ELSE Or2(error.status, error.code)

isQuotaError(error) ==
    \/ statusOf("p000", error) = 429
    \/ includes(error.msg, "429")
    \/ includes(error.msg, "Quota")
    \/ includes(error.msg, "Too Many Requests")

isServerError(error) ==
    statusOf("p000", error) >= 500 /\ statusOf("p000", error) < 600

isNetworkError(error) ==
    \/ includes(error.msg, "xhr")
    \/ includes(error.msg, "fetch")
    \/ includes(error.msg, "network")
    \/ includes(error.msg, "Failed to fetch")

\* part_000:54, part_001:33, geminiService.ts:54-62 and :313-320
shouldRetry(r, error) ==
    CASE r = "p000" ->
            isQuotaError(error) \/ isServerError(error) \/ isNetworkError(error)
      [] r = "qa" ->
            \/ statusOf(r, error) = 429
            \/ (statusOf(r, error) >= 500 /\ statusOf(r, error) < 600)
      [] r = "rev1" ->
            \/ statusOf(r, error) \in {429, 503, 500}
            \/ includes(error.msg, "xhr")
            \/ includes(error.msg, "fetch")
            \/ includes(error.msg, "network")
            \/ error.ecode = 500
            \/ error.ecode = 429
      [] r = "rev2" ->
            \/ (error.status # 0 /\ error.status >= 500)
            \/ error.status = 429
            \/ includes(error.msg, "xhr")
            \/ includes(error.msg, "fetch")
            \/ includes(error.msg, "500")
            \/ includes(error.msg, "503")
            \/ error.ecode = 500

\* Math.random() in thousandths: a value of [0, 1)
Randoms == {0, 500, 999}

MinQuotaDelay == 5000

Max(a, b) == IF a >= b THEN a ELSE b

\* The wait before the next attempt.  p000: jitter = 0.75 + random * 0.5 applied
\* to max(minDelay, baseDelay); qa: delay + random * 500; rev1: doubled on 429.
waitTime(r, error, delay, rnd) ==
    CASE r = "p000" ->
            LET minDelay == IF isQuotaError(error) THEN MinQuotaDelay ELSE delay
            IN  (Max(minDelay, delay) * (1500 + rnd)) \div 2000
      [] r = "qa" -> delay + (rnd * 500) \div 1000
      [] r = "rev1" -> IF statusOf(r, error) = 429 THEN delay * 2 ELSE delay
      [] r = "rev2" -> delay

\* a recursion that hands on the delay it was given
nextDelay_Same(r, error, delay, factor, rnd) == delay

\* The delay handed to the recursive call.  The factor 1.5 of rev1 and rev2 is
\* a float in the source; the model keeps the whole milliseconds.
nextDelay(r, error, delay, factor, rnd) ==
    CASE r \in {"p000", "qa"} -> delay * factor
      [] r = "rev1" -> (waitTime(r, error, delay, rnd) * 3) \div 2
      [] r = "rev2" -> (delay * 3) \div 2

(***************************************************************************)
(* retryWithBackoff(fn, retries, delay, factor) as a state machine.  The   *)
(* recursion of the source is the loop call -> wait -> call; a record      *)
(* holds the arguments of the current activation.                          *)
(*   pc = "call"     await fn() is pending                                 *)
(*   pc = "wait"     await setTimeout(waitTime) is pending                 *)
(*   pc = "returned" resolved with out                                     *)
(*   pc = "thrown"   rejected with out                                     *)
(* calls and waits count the calls of fn and the waits so far; last is     *)
(* the outcome of the latest call of fn, init the budget and base the      *)
(* delay it started with.                                                  *)
(***************************************************************************)
\* What one call of fn came to: a response, or an error thrown.
Ok(value) == [ok |-> TRUE, val |-> value, err |-> NoError]
Fail(error) == [ok |-> FALSE, val |-> NoResponse, err |-> error]
Pending == [ok |-> FALSE, val |-> NoResponse, err |-> NoError]

retryStart(retries, delay, factor) ==
    [pc |-> "call", retries |-> retries, delay |-> delay, factor |-> factor,
     init |-> retries, base |-> delay, calls |-> 1, waits |-> 0, wait |-> 0,
     next |-> delay,
     out |-> Pending, last |-> Pending]

\* return await fn();
retryResolve(s, value) ==
    [s EXCEPT !.pc = "returned", !.out = Ok(value),
              !.last = Ok(value)]

\* what follows a failure of fn that is to be retried
retryAfterFailure(r, s, error, rnd) ==
    [s EXCEPT !.pc = "wait",
              !.wait = waitTime(r, error, s.delay, rnd),
              !.next = nextDelay(r, error, s.delay, s.factor, rnd),
              !.waits = @ + 1,
              !.last = Fail(error)]

\* a throw of a new error that wraps the one caught
retryThrow_Wrapped(s, error) ==
    [s EXCEPT !.pc = "thrown",
              !.out = Fail(Err(0, 0, 0, <<"Max", "retries", "exceeded">>)),
              !.last = Fail(error)]

\* throw error;
retryThrow(s, error) ==
    [s EXCEPT !.pc = "thrown", !.out = Fail(error),
              !.last = Fail(error)]

\* a catch block that gives up while one retry is left
retryCatch_OneLess(r, s, error, rnd) ==
    IF s.retries <= 1 \/ ~shouldRetry(r, error)
    THEN retryThrow(s, error)
    ELSE retryAfterFailure(r, s, error, rnd)

\* catch (error): give up when no retries are left or the error is not retryable
retryCatch(r, s, error, rnd) ==
    IF s.retries <= 0 \/ ~shouldRetry(r, error)
    THEN retryThrow(s, error)
    ELSE retryAfterFailure(r, s, error, rnd)

\* a recursion that forgets to use up a retry
retriesAfter_Same(retries) == retries

\* the retries left for the recursive call
retriesAfter(retries) == retries - 1

\* the timer fired: return retryWithBackoff(fn, retries - 1, delay', factor)
retryResume(s) ==
    [s EXCEPT !.pc = "call", !.retries = retriesAfter(@), !.delay = s.next,
              !.calls = @ + 1]

(***************************************************************************)
(* SpecRetry: one invocation of retryWithBackoff, of any revision, with    *)
(* any budget and any sequence of outcomes of fn.                          *)
(***************************************************************************)
RetryBudgets == -1 .. MaxRetries
BaseDelays == {1000, 2000, 4000}
Factors == {2, 3}

\* responses fn may resolve with
Responses ==
    { Resp(<<"{", "}">>, <<>>, ""),
      Resp(<<>>, <<[inlineData |-> "AAAA"]>>, "") }

InitRetry ==
    /\ AppUnused
    /\ rev \in Revisions
    /\ \E n \in RetryBudgets, d \in BaseDelays, f \in Factors :
          rt = retryStart(n, d, f)
    /\ img = Unused
    /\ txt = Unused

RetryFnReturns ==
    /\ rt.pc = "call"
    /\ \E v \in Responses : rt' = retryResolve(rt, v)
    /\ UNCHANGED <<rev, img, txt, appVars>>

RetryFnThrows ==
    /\ rt.pc = "call"
    /\ \E e \in Errors, rnd \in Randoms : rt' = retryCatch(rev, rt, e, rnd)
    /\ UNCHANGED <<rev, img, txt, appVars>>

RetryTimerFires ==
    /\ rt.pc = "wait"
    /\ rt' = retryResume(rt)
    /\ UNCHANGED <<rev, img, txt, appVars>>

NextRetry == RetryFnReturns \/ RetryFnThrows \/ RetryTimerFires

SpecRetry == InitRetry /\ [][NextRetry]_vars

(***************************************************************************)
(* generateImageFromPrompt.                                                *)
(***************************************************************************)
IMAGE_MODELS_PRIORITY(r) ==
    CASE r = "p000" -> <<"gemini-2.5-flash-image", "imagen-3.0-generate-001",
                         "gemini-3-pro-image-preview">>
      [] r = "rev1" -> <<"gemini-2.5-flash-image", "imagen-3.0-generate-001",
                         "gemini-3-pro-image-preview">>
      [] r = "rev2" -> <<"gemini-2.5-flash-image", "gemini-2.0-flash-exp",
                         "imagen-3.0-generate-001", "gemini-3-pro-image-preview">>
      [] r = "qa" -> <<"gemini-2.5-flash-image", "imagen-4.0-generate-001">>

\* modelName.includes('imagen')
isImagen(modelName) ==
    modelName \in {"imagen-3.0-generate-001", "imagen-4.0-generate-001"}

\* the retry budget and base delay of each candidate's dispatch; the qa
\* revision calls the client directly, which is a budget of no retries
ImageRetries(r) ==
    CASE r = "p000" -> 4 [] r = "rev1" -> 3 [] r = "rev2" -> 1 [] r = "qa" -> 0

ImageBaseDelay(r) ==
    CASE r = "p000" -> 4000 [] r = "rev1" -> 2000 [] r = "rev2" -> 1000
      [] r = "qa" -> 0

DefaultFactor == 2

imageDispatch(r) == retryStart(ImageRetries(r), ImageBaseDelay(r), DefaultFactor)

\* a text: `data:${mime};base64,${b64}`
dataUrl(mime, b64) == <<"data:", mime, ";base64,", b64>>

\* the first part with inlineData: its data, "" when no part has any
RECURSIVE firstInlineData(_)
firstInlineData(parts) ==
    IF parts = <<>> THEN ""
    ELSE IF Head(parts).inlineData # "" THEN Head(parts).inlineData
    ELSE firstInlineData(Tail(parts))

\* the image a response yields for a model: a data URL, <<>> when it has none
imageOf(r, modelName, response) ==
    IF isImagen(modelName)
    THEN IF response.imageBytes # ""
         THEN dataUrl(IF r = "qa" THEN "image/png" ELSE "image/jpeg",
                      response.imageBytes)
         ELSE <<>>
    ELSE IF firstInlineData(response.parts) # ""
         THEN dataUrl("image/png", firstInlineData(response.parts))
         ELSE <<>>

\* responses the remote API gives to an image request of either shape
ImageResponses(modelName) ==
    IF isImagen(modelName)
    THEN { Resp(<<>>, <<>>, "SlBFRw"), Resp(<<>>, <<>>, "") }
    ELSE { Resp(<<>>, <<[inlineData |-> ""], [inlineData |-> "UE5H"]>>, ""),
           Resp(<<"I", "cannot", "draw">>, <<[inlineData |-> ""]>>, "") }

UnknownError == <<"Unknown", "Error">>
QuotaExceeded == <<"429", "Quota", "Exceeded">>
GenerationFailed == <<"IMAGE_GENERATION_FAILED">>

\* error.message || String(error)
msgOf(error) == IF error.msg # <<>> THEN error.msg ELSE <<"[object Object]">>

\* the catch block's test for a quota failure
catchIsQuota(r, error) ==
    CASE r = "p000" -> statusOf(r, error) = 429 \/ includes(msgOf(error), "429")
      [] r = "rev1" -> statusOf(r, error) = 429
      [] OTHER -> FALSE

\* lastError after the catch block
lastErrorAfter(r, lastError, error) ==
    CASE r \in {"p000", "rev1"} ->
            IF catchIsQuota(r, error) THEN QuotaExceeded ELSE msgOf(error)
      [] r = "rev2" ->
            IF error.status # 0 THEN <<"Status", ToString(error.status)>>
            ELSE IF error.msg # <<>> THEN error.msg ELSE lastError
      [] r = "qa" -> lastError

QuotaCooldown(r) == CASE r = "p000" -> 8000 [] r = "rev1" -> 3000 [] OTHER -> 0
OtherCooldown(r) == CASE r = "p000" -> 1500 [] r = "rev1" -> 1000 [] OTHER -> 0

\* the wait of the catch block before the loop goes on
cooldownAfter(r, error) ==
    IF catchIsQuota(r, error) THEN QuotaCooldown(r) ELSE OtherCooldown(r)

\* a result that carries neither an image nor an error
errorResult_Blank(r, lastError) == [imageUrl |-> <<>>, error |-> <<>>]

\* return { error: lastError }
errorResult(r, lastError) ==
    [imageUrl |-> <<>>, error |-> IF r = "qa" THEN GenerationFailed ELSE lastError]

(***************************************************************************)
(* One invocation of generateImageFromPrompt:                              *)
(*   pc = "try"       the dispatch of candidate m is running (rs)          *)
(*   pc = "cooldown"  the catch block's setTimeout is pending              *)
(*   pc = "done"      resolved with result                                 *)
(* calls counts the remote calls made, hist holds for every candidate      *)
(* left behind or succeeded how it ended: "image", "noimage", "quota"      *)
(* (thrown, quota) or "other" (thrown, not quota).                         *)
(***************************************************************************)
imgStart(r) ==
    [pc |-> "try", m |-> 1, rs |-> imageDispatch(r), lastError |-> UnknownError,
     result |-> [imageUrl |-> <<>>, error |-> <<>>], calls |-> 1,
     cooldown |-> 0, hist |-> <<>>]

\* a loop that starts over at the first candidate after the last one
imgNextModel_StartOver(r, g) ==
    IF g.m < Len(IMAGE_MODELS_PRIORITY(r))
    THEN [g EXCEPT !.pc = "try", !.m = @ + 1, !.rs = imageDispatch(r),
                   !.calls = @ + 1]
    ELSE [g EXCEPT !.pc = "try", !.m = 1, !.rs = imageDispatch(r),
                   !.calls = @ + 1]

\* the for loop moves on: the next candidate's dispatch, or the error result
imgNextModel(r, g) ==
    IF g.m < Len(IMAGE_MODELS_PRIORITY(r))
    THEN [g EXCEPT !.pc = "try", !.m = @ + 1, !.rs = imageDispatch(r),
                   !.calls = @ + 1]
    ELSE [g EXCEPT !.pc = "done", !.result = errorResult(r, g.lastError)]

\* a loop body that records the image and goes on instead of returning
imgOnResponse_NoReturn(r, g, response) ==
    LET url == imageOf(r, IMAGE_MODELS_PRIORITY(r)[g.m], response)
        g1 == [g EXCEPT !.rs = retryResolve(g.rs, response)]
    IN  IF url # <<>>
        THEN [imgNextModel(r, [g1 EXCEPT !.hist = Append(@, "image")])
                  EXCEPT !.result = [imageUrl |-> url, error |-> <<>>]]
        ELSE imgNextModel(r, [g1 EXCEPT !.hist = Append(@, "noimage")])

\* a loop body that gives up at the first response without an image
imgOnResponse_GiveUp(r, g, response) ==
    LET url == imageOf(r, IMAGE_MODELS_PRIORITY(r)[g.m], response)
        g1 == [g EXCEPT !.rs = retryResolve(g.rs, response)]
    IN  IF url # <<>>
        THEN [g1 EXCEPT !.pc = "done",
                        !.result = [imageUrl |-> url, error |-> <<>>],
                        !.hist = Append(@, "image")]
        ELSE [g1 EXCEPT !.pc = "done",
                        !.result = errorResult(r, g.lastError),
                        !.hist = Append(@, "noimage")]

\* the dispatch resolved with a response
imgOnResponse(r, g, response) ==
    LET url == imageOf(r, IMAGE_MODELS_PRIORITY(r)[g.m], response)
        g1 == [g EXCEPT !.rs = retryResolve(g.rs, response)]
    IN  IF url # <<>>
        THEN [g1 EXCEPT !.pc = "done",
                        !.result = [imageUrl |-> url, error |-> <<>>],
                        !.hist = Append(@, "image")]
        ELSE imgNextModel(r, [g1 EXCEPT !.hist = Append(@, "noimage")])

\* a catch block that does not wait after the last candidate
imgCatch_SkipLast(r, g, error) ==
    LET g1 == [g EXCEPT !.lastError = lastErrorAfter(r, g.lastError, error),
                        !.hist = Append(@, IF catchIsQuota(r, error)
                                           THEN "quota" ELSE "other")]
    IN  IF r \in {"p000", "rev1"} /\ g.m < Len(IMAGE_MODELS_PRIORITY(r))
        THEN [g1 EXCEPT !.pc = "cooldown", !.cooldown = cooldownAfter(r, error)]
        ELSE imgNextModel(r, g1)

\* the catch block of the loop body
imgCatch(r, g, error) ==
    LET g1 == [g EXCEPT !.lastError = lastErrorAfter(r, g.lastError, error),
                        !.hist = Append(@, IF catchIsQuota(r, error)
                                           THEN "quota" ELSE "other")]
    IN  IF r \in {"p000", "rev1"}
        THEN [g1 EXCEPT !.pc = "cooldown", !.cooldown = cooldownAfter(r, error)]
        ELSE imgNextModel(r, g1)

\* the remote call rejected: retryWithBackoff waits, or throws into the catch
imgOnError(r, g, error, rnd) ==
    LET rs1 == retryCatch(r, g.rs, error, rnd)
        g1 == [g EXCEPT !.rs = rs1]
    IN  IF rs1.pc = "thrown" THEN imgCatch(r, g1, error) ELSE g1

\* the backoff timer fired: the next call of the same candidate
imgOnBackoff(g) == [g EXCEPT !.rs = retryResume(g.rs), !.calls = @ + 1]

\* the cooldown timer fired
imgOnCooldown(r, g) == imgNextModel(r, g)

(***************************************************************************)
(* SpecImage: one invocation of generateImageFromPrompt, of any revision,  *)
(* with any outcome of every remote call.                                  *)
(***************************************************************************)
InitImage ==
    /\ AppUnused
    /\ rev \in Revisions
    /\ rt = Unused
    /\ img = imgStart(rev)
    /\ txt = Unused

ImgRemoteReturns ==
    /\ img.pc = "try" /\ img.rs.pc = "call"
    /\ \E v \in ImageResponses(IMAGE_MODELS_PRIORITY(rev)[img.m]) :
          img' = imgOnResponse(rev, img, v)
    /\ UNCHANGED <<rev, rt, txt, appVars>>

ImgRemoteThrows ==
    /\ img.pc = "try" /\ img.rs.pc = "call"
    /\ \E e \in Errors, rnd \in Randoms : img' = imgOnError(rev, img, e, rnd)
    /\ UNCHANGED <<rev, rt, txt, appVars>>

ImgBackoffFires ==
    /\ img.pc = "try" /\ img.rs.pc = "wait"
    /\ img' = imgOnBackoff(img)
    /\ UNCHANGED <<rev, rt, txt, appVars>>

ImgCooldownFires ==
    /\ img.pc = "cooldown"
    /\ img' = imgOnCooldown(rev, img)
    /\ UNCHANGED <<rev, rt, txt, appVars>>

NextImage ==
    ImgRemoteReturns \/ ImgRemoteThrows \/ ImgBackoffFires \/ ImgCooldownFires

SpecImage == InitImage /\ [][NextImage]_vars

\* SpecImageFair: every remote call settles (resolves or rejects) and every
\* timer set with setTimeout fires
SpecImageFair ==
    /\ InitImage /\ [][NextImage]_vars
    /\ WF_vars(ImgRemoteReturns \/ ImgRemoteThrows)
    /\ WF_vars(ImgBackoffFires)
    /\ WF_vars(ImgCooldownFires)

(***************************************************************************)
(* cleanJson and JSON.parse.  A response text is a sequence of tokens:     *)
(* "{" and "}", "FENCE" (three backticks), "json", white space (" " and    *)
(* "NL", a line break), prose words, and members of a JSON object.  A      *)
(* member token stands for one                                             *)
(* key/value pair of the object: "vp=a" is "visualPrompt":"a", "vp=" the   *)
(* same key with the empty string, "top=t" / "bot=b" the captions, and     *)
(* "panels=k" an array of k panel objects.                                 *)
(***************************************************************************)
isSpace(tok) == tok \in {" ", "NL"}

\* text.indexOf(tok): the first index, 0 when absent (the source's -1)
indexOf(text, tok) ==
    IF \E i \in DOMAIN text : text[i] = tok
    THEN CHOOSE i \in DOMAIN text :
            text[i] = tok /\ \A j \in 1 .. (i - 1) : text[j] # tok
    ELSE 0

\* the first index >= from holding tok, 0 when there is none
indexFrom(text, tok, from) ==
    IF \E i \in from .. Len(text) : text[i] = tok
    THEN CHOOSE i \in from .. Len(text) :
            text[i] = tok /\ \A j \in from .. (i - 1) : text[j] # tok
    ELSE 0

\* text.lastIndexOf(tok)
lastIndexOf(text, tok) ==
    IF \E i \in DOMAIN text : text[i] = tok
    THEN CHOOSE i \in DOMAIN text :
            text[i] = tok /\ \A j \in (i + 1) .. Len(text) : text[j] # tok
    ELSE 0

\* the first index >= from that holds no white space (Len + 1 if none)
RECURSIVE skipSpace(_, _)
skipSpace(text, from) ==
    IF from <= Len(text) /\ isSpace(text[from])
    THEN skipSpace(text, from + 1) ELSE from

\* the last index <= to that holds no white space, not below low - 1
RECURSIVE skipSpaceBack(_, _, _)
skipSpaceBack(text, to, low) ==
    IF to >= low /\ isSpace(text[to])
    THEN skipSpaceBack(text, to - 1, low) ELSE to

\* text.match(/\{[\s\S]*\}/): from the first "{" to the last "}" after it
braceSpan(text) ==
    LET startIndex == indexOf(text, "{")
        endIndex == lastIndexOf(text, "}")
    IN  IF startIndex # 0 /\ endIndex # 0 /\ endIndex > startIndex
        THEN SubSeq(text, startIndex, endIndex)
        ELSE <<>>

\* text.match(/FENCE(?:json)?\s*([\s\S]*?)\s*FENCE/): [matched, group 1]
fenceMatch(text) ==
    LET open == indexOf(text, "FENCE")
        afterJson == IF open # 0 /\ open < Len(text) /\ text[open + 1] = "json"
                     THEN open + 2 ELSE open + 1
        start == skipSpace(text, afterJson)
        close == IF open = 0 THEN 0 ELSE indexFrom(text, "FENCE", start)
    IN  IF open = 0 \/ close = 0
        THEN [matched |-> FALSE, group |-> <<>>]
        ELSE [matched |-> TRUE,
              group |-> SubSeq(text, start, skipSpaceBack(text, close - 1, start))]

\* cleanJson(text)
cleanJson(r, text) ==
    IF text = <<>> THEN <<"{", "}">>
    ELSE IF r = "rev2" /\ fenceMatch(text).matched THEN fenceMatch(text).group
    ELSE IF braceSpan(text) # <<>> THEN braceSpan(text)
    ELSE text

(***************************************************************************)
(* SpecClean: cleanJson, of any revision, applied to any text of up to     *)
(* MaxTextLen tokens: braces, fences, the json tag, white space, a word.   *)
(***************************************************************************)
MaxTextLen == 5

TextTokens == {"{", "}", "FENCE", "json", "NL", "word"}

TextsUpTo(n) == UNION { [1 .. k -> TextTokens] : k \in 0 .. n }

InitClean ==
    /\ AppUnused
    /\ rev \in Revisions
    /\ rt = Unused /\ img = Unused
    /\ \E text \in TextsUpTo(MaxTextLen) :
          txt = [pc |-> "clean", text |-> text, out |-> <<>>]

\* JSON.parse(cleanJson(rawText)): the cleaning step
CleanText ==
    /\ txt.pc = "clean"
    /\ txt' = [txt EXCEPT !.pc = "cleaned", !.out = cleanJson(rev, txt.text)]
    /\ UNCHANGED <<rev, rt, img, appVars>>

NextClean == CleanText

SpecClean == InitClean /\ [][NextClean]_vars

MemberTokens ==
    {"vp=a", "vp=", "top=t", "top=", "bot=b", "bot=",
     "panels=0", "panels=1", "panels=2", "panels=3", "panels=4", "panels=5"}

\* the key of a member token
keyOf(tok) ==
    CASE tok \in {"vp=a", "vp="} -> "visualPrompt"
      [] tok \in {"top=t", "top="} -> "topText"
      [] tok \in {"bot=b", "bot="} -> "bottomText"
      [] OTHER -> "panels"

\* the text without its white space
RECURSIVE noSpace(_)
noSpace(text) ==
    IF text = <<>> THEN <<>>
    ELSE IF isSpace(Head(text)) THEN noSpace(Tail(text))
    ELSE <<Head(text)>> \o noSpace(Tail(text))

\* JSON.parse(text): an object (the set of its members), null, or a SyntaxError
JSONparse(text) ==
    LET t == noSpace(text)
    IN  IF t = <<"null">> THEN [kind |-> "null", members |-> {}]
        ELSE IF /\ Len(t) >= 2 /\ t[1] = "{" /\ t[Len(t)] = "}"
                /\ \A i \in 2 .. (Len(t) - 1) : t[i] \in MemberTokens
                /\ \A i, j \in 2 .. (Len(t) - 1) :
                      i # j => keyOf(t[i]) # keyOf(t[j])
        THEN [kind |-> "object", members |-> {t[i] : i \in 2 .. (Len(t) - 1)}]
        ELSE [kind |-> "SyntaxError", members |-> {}]

Undefined == "undefined"

\* object.key for a string-valued key: its value, Undefined when absent
member(parsed, key) ==
    IF \E tok \in parsed.members : keyOf(tok) = key
    THEN LET tok == CHOOSE tk \in parsed.members : keyOf(tk) = key
         IN  CASE tok = "vp=a" -> "a" [] tok = "top=t" -> "t"
               [] tok = "bot=b" -> "b" [] OTHER -> ""
    ELSE Undefined

\* a || b on strings: the first operand unless it is falsy
OrStr(a, b) == IF a \in {"", Undefined} THEN b ELSE a

ComicPanel(n) ==
    [panelNumber |-> n, description |-> "description", caption |-> "caption"]

\* object.panels: the array of panels, <<>> standing also for "not there"
panelsOf(parsed) ==
    IF \E tok \in parsed.members : keyOf(tok) = "panels"
    THEN LET tok == CHOOSE tk \in parsed.members : keyOf(tk) = "panels"
             k == CASE tok = "panels=0" -> 0 [] tok = "panels=1" -> 1
                    [] tok = "panels=2" -> 2 [] tok = "panels=3" -> 3
                    [] tok = "panels=4" -> 4 [] OTHER -> 5
         IN  [n \in 1 .. k |-> ComicPanel(n)]
    ELSE <<>>

\* array.slice(0, n)
slice0(array, n) == SubSeq(array, 1, IF n < Len(array) THEN n ELSE Len(array))

(***************************************************************************)
(* generateMemeText and generateComicScript.                               *)
(***************************************************************************)
\* the retry budget and base delay of the text calls; rev2 and qa pass none
\* and get the defaults of their retryWithBackoff
TextRetries(r) ==
    CASE r \in {"p000", "rev1"} -> 3 [] r = "rev2" -> 2 [] r = "qa" -> 3

TextBaseDelay(r) ==
    CASE r \in {"p000", "rev1"} -> 2000 [] r = "rev2" -> 1000 [] r = "qa" -> 1500

textDispatch(r) == retryStart(TextRetries(r), TextBaseDelay(r), DefaultFactor)

Meme(visualPrompt, topText, bottomText) ==
    [visualPrompt |-> visualPrompt, topText |-> topText,
     bottomText |-> bottomText]

\* the hardcoded triple of the catch block (the captions are Russian in the
\* source, transliterated here)
memeFallback_Empty(r) == Meme("A funny programmer computer screen", "", "")

memeFallback(r) ==
    IF r = "qa"
    THEN Meme("Developer crying at a desk", "Kogda prishel debazhit prilozhenie",
              "A ono prosto ne zapuskaetsya")
    ELSE Meme("Blue screen of death with confused programmer", "Kogda kod upal",
              "A ty ne znaesh pochemu")

\* the try block of generateMemeText after the response arrived: the meme
\* returned, or "threw" when JSON.parse or a property access throws
memeFromResponse(r, response) ==
    LET parsed == JSONparse(cleanJson(r, response.text))
    IN  IF parsed.kind # "object"
        THEN [threw |-> TRUE, meme |-> memeFallback(r)]
        ELSE [threw |-> FALSE,
              meme |-> IF r = "qa"
                       THEN Meme(member(parsed, "visualPrompt"),
                                 member(parsed, "topText"),
                                 member(parsed, "bottomText"))
                       ELSE Meme(OrStr(member(parsed, "visualPrompt"),
                                       "A funny programmer computer screen"),
                                 OrStr(member(parsed, "topText"), ""),
                                 OrStr(member(parsed, "bottomText"), ""))]

\* the three generic panels of the qa revision's catch block
scriptFallback(r) ==
    IF r = "qa" THEN <<ComicPanel(1), ComicPanel(2), ComicPanel(3)>> ELSE <<>>

\* the try block of generateComicScript after the response arrived
scriptFromResponse(r, response, panelCount) ==
    LET parsed == JSONparse(cleanJson(r, response.text))
    IN  IF r = "qa"
        THEN \* JSON.parse throws, json.panels of null throws, no panels throws
             IF parsed.kind # "object" \/ slice0(panelsOf(parsed), panelCount) = <<>>
             THEN scriptFallback(r)
             ELSE slice0(panelsOf(parsed), panelCount)
        ELSE \* the inner catch gives { panels: [] }; null.panels reaches the outer
             IF parsed.kind # "object" THEN <<>> ELSE panelsOf(parsed)

(***************************************************************************)
(* One invocation of generateMemeText (op = "meme") or generateComicScript *)
(* (op = "script"): pc = "try" while the remote call and its retries run,  *)
(* "done" once resolved; meme / panels hold the value resolved with.       *)
(***************************************************************************)
txtStart(r, op, panelCount) ==
    [op |-> op, panelCount |-> panelCount, pc |-> "try", rs |-> textDispatch(r),
     meme |-> Meme(Undefined, Undefined, Undefined), panels |-> <<>>,
     calls |-> 1]

txtOnResponse(r, t, response) ==
    LET t1 == [t EXCEPT !.pc = "done", !.rs = retryResolve(t.rs, response)]
    IN  IF t.op = "meme"
        THEN [t1 EXCEPT !.meme = memeFromResponse(r, response).meme]
        ELSE [t1 EXCEPT !.panels = scriptFromResponse(r, response, t.panelCount)]

\* the remote call rejected: retryWithBackoff waits, or throws into the catch
txtOnError(r, t, error, rnd) ==
    LET rs1 == retryCatch(r, t.rs, error, rnd)
        t1 == [t EXCEPT !.rs = rs1]
    IN  IF rs1.pc # "thrown" THEN t1
        ELSE IF t.op = "meme"
        THEN [t1 EXCEPT !.pc = "done", !.meme = memeFallback(r)]
        ELSE [t1 EXCEPT !.pc = "done", !.panels = scriptFallback(r)]

txtOnBackoff(t) == [t EXCEPT !.rs = retryResume(t.rs), !.calls = @ + 1]

\* texts the remote model may answer with
MemeTexts ==
    { <<"{", "vp=a", "top=t", "bot=b", "}">>,
      <<"Sure", " ", "{", "vp=a", "top=t", "bot=b", "}", " ", "enjoy">>,
      <<"FENCE", "json", "NL", "{", "vp=a", "top=t", "bot=b", "}", "NL", "FENCE">>,
      <<"{", "top=t", "bot=b", "}">>,
      <<"{", "vp=", "top=t", "bot=", "}">>,
      <<"{", "vp=a", "top=t">>,
      <<"null">>,
      <<>> }

MaxPanelCount == 4

ScriptTexts ==
    { <<"{", "panels=0", "}">>, <<"{", "panels=1", "}">>,
      <<"{", "panels=2", "}">>, <<"{", "panels=3", "}">>,
      <<"{", "panels=4", "}">>, <<"{", "panels=5", "}">>,
      <<"Here", "{", "panels=3", "}">>,
      <<"{", "}">>, <<"{", "panels=3">>, <<"null">>, <<>> }

(***************************************************************************)
(* SpecText: one invocation of a text generator, of any revision.          *)
(***************************************************************************)
InitText ==
    /\ AppUnused
    /\ rev \in Revisions
    /\ rt = Unused
    /\ img = Unused
    /\ \/ txt = txtStart(rev, "meme", 0)
       \/ \E n \in 1 .. MaxPanelCount : txt = txtStart(rev, "script", n)

TxtRemoteReturns ==
    /\ txt.pc = "try" /\ txt.rs.pc = "call"
    /\ \E text \in (IF txt.op = "meme" THEN MemeTexts ELSE ScriptTexts) :
          txt' = txtOnResponse(rev, txt, Resp(text, <<>>, ""))
    /\ UNCHANGED <<rev, rt, img, appVars>>

TxtRemoteThrows ==
    /\ txt.pc = "try" /\ txt.rs.pc = "call"
    /\ \E e \in Errors, rnd \in Randoms : txt' = txtOnError(rev, txt, e, rnd)
    /\ UNCHANGED <<rev, rt, img, appVars>>

TxtBackoffFires ==
    /\ txt.pc = "try" /\ txt.rs.pc = "wait"
    /\ txt' = txtOnBackoff(txt)
    /\ UNCHANGED <<rev, rt, img, appVars>>

NextText == TxtRemoteReturns \/ TxtRemoteThrows \/ TxtBackoffFires

SpecText == InitText /\ [][NextText]_vars

(***************************************************************************)
(* Claims about retryWithBackoff (checked under SpecRetry).                *)
(***************************************************************************)

\* C1 (as stated): invoked with budget n (the retries argument, n >= 1),
\* retryWithBackoff calls the wrapped operation at most n times in total.
C1_AtMostBudgetCalls == rt.init >= 1 => rt.calls <= rt.init

\* C1 (amended): invoked with retries = n, retryWithBackoff calls the wrapped
\* operation at most max(n, 0) + 1 times (the first call and up to n retries);
\* as soon as one call succeeds it returns that call's value and fn is not
\* called again.
C1_AtMostBudgetPlusOneCalls ==
    /\ rt.calls <= Max(rt.init, 0) + 1
    /\ rt.pc = "returned" => (rt.last.ok /\ rt.out = rt.last)
    /\ rt.last.ok => rt.pc = "returned"

\* the last permitted call (the n-th retry) succeeded, after n failures
C1_Witness ==
    /\ rt.init >= 2
    /\ rt.pc = "returned"
    /\ rt.calls = rt.init + 1
    /\ rt.out.val \in Responses

\* a client error: HTTP status 4xx other than 429
isClientError(error) ==
    LET status == Or2(error.status, error.code)
    IN  status >= 400 /\ status < 500 /\ status # 429

\* C2: when the latest call of fn failed with a client error (4xx other than
\* 429), fn is not called again and nothing is waited for: the invocation has
\* thrown that error, even when retries remain.
C2_ClientErrorNotRetried ==
    (~rt.last.ok /\ isClientError(rt.last.err)) =>
        (rt.pc = "thrown" /\ rt.out = rt.last)

(***************************************************************************)
(* Claims about generateImageFromPrompt (checked under SpecImage).         *)
(***************************************************************************)

\* the data URL the source builds from the response of the latest call
expectedUrl(r, g) ==
    LET response == g.rs.last.val
        name == IMAGE_MODELS_PRIORITY(r)[g.m]
        first == CHOOSE i \in DOMAIN response.parts :
                    /\ response.parts[i].inlineData # ""
                    /\ \A j \in 1 .. (i - 1) : response.parts[j].inlineData = ""
    IN  IF name \in {"imagen-3.0-generate-001", "imagen-4.0-generate-001"}
        THEN <<"data:", IF r = "qa" THEN "image/png" ELSE "image/jpeg",
               ";base64,", response.imageBytes>>
        ELSE <<"data:", "image/png", ";base64,",
               response.parts[first].inlineData>>

\* C3: candidates are tried strictly in list order, one at a time; the image
\* of the first candidate that yields image data is returned as a data URL and
\* no later candidate is dispatched and no remote call is pending after it.
\* With candidates 1 and 2 failing on quota and candidate 3 succeeding
\* (part_000), the result is candidate 3's image, a PNG data URL.
C3_FirstImageWins ==
    /\ img.m \in 1 .. Len(IMAGE_MODELS_PRIORITY(rev))
    /\ Len(img.hist) = IF img.pc = "try" THEN img.m - 1 ELSE img.m
    /\ \A i \in 1 .. (Len(img.hist) - 1) : img.hist[i] # "image"
    /\ img.pc = "done" => img.rs.pc \in {"returned", "thrown"}
    /\ (img.result.imageUrl # <<>> \/ "image" \in {img.hist[i] : i \in DOMAIN img.hist})
          => /\ img.pc = "done"
             /\ img.rs.pc = "returned"
             /\ img.hist[Len(img.hist)] = "image"
             /\ img.result.error = <<>>
             /\ img.result.imageUrl = expectedUrl(rev, img)
    /\ (rev = "p000" /\ img.hist = <<"quota", "quota", "image">>)
          => /\ img.m = 3
             /\ img.result.imageUrl[2] = "image/png"
             /\ img.result.imageUrl[4] = "UE5H"

\* part_000: candidates 1 and 2 failed on quota after all their retries (5
\* calls each), candidate 3 succeeded on its first call
C3_Witness ==
    /\ rev = "p000"
    /\ img.pc = "done"
    /\ img.hist = <<"quota", "quota", "image">>
    /\ img.calls = 11
    /\ img.result.imageUrl = <<"data:", "image/png", ";base64,", "UE5H">>

\* C4 (part_000): generateImageFromPrompt does not throw; when no candidate
\* yields image data the result has error set and no imageUrl, and the error
\* describes the failure of the last candidate that failed: it is
\* "429 Quota Exceeded" exactly when that failure was a quota failure, and the
\* thrown error's message when it was another thrown error.
C4_ErrorDescribesLastFailure ==
    (rev = "p000" /\ img.pc = "done" /\ img.result.imageUrl = <<>>) =>
        LET h == img.hist[Len(img.hist)]
        IN  /\ img.result.error # <<>>
            /\ (img.result.error = QuotaExceeded) <=> (h = "quota")
            /\ h = "other" => img.result.error = msgOf(img.rs.last.err)

(***************************************************************************)
(* Claims about the text generators (checked under SpecText).              *)
(***************************************************************************)

\* C5 (part_001, the revision with a fallback script): generateComicScript
\* (topic, 3) returns exactly 3 panels whatever the remote call did.
C5_ExactlyThreePanels ==
    (rev = "qa" /\ txt.op = "script" /\ txt.pc = "done" /\ txt.panelCount = 3)
        => Len(txt.panels) = 3

\* the response of the latest remote call, cleaned and parsed
lastParsed == JSONparse(cleanJson(rev, txt.rs.last.val.text))

\* C6: generateMemeText resolves (never throws), and whenever the remote call
\* failed after its retries, the response text does not parse, or the parsed
\* value lacks a required field, it resolves with the hardcoded fallback triple.
C6_FallbackOnAnyFailure ==
    (txt.op = "meme" /\ txt.pc = "done") =>
        ((\/ txt.rs.pc = "thrown"
          \/ lastParsed.kind # "object"
          \/ \E key \in {"visualPrompt", "topText", "bottomText"} :
                member(lastParsed, key) = Undefined)
            => txt.meme = memeFallback(rev))


(***************************************************************************)
(* The orchestrator: the App component of src/unnamed/part_002, which      *)
(* runs on the service module of revision "p000".                          *)
(*                                                                         *)
(* Everything the orchestrator shows is a string.  The service's texts     *)
(* (token sequences) become strings on the way: the words of a message     *)
(* joined by blanks, the pieces of a data URL joined as they are.          *)
(***************************************************************************)
RECURSIVE joinWith(_, _)
joinWith(tokens, sep) ==
    IF tokens = <<>> THEN ""
    ELSE IF Len(tokens) = 1 THEN tokens[1]
    ELSE tokens[1] \o sep \o joinWith(Tail(tokens), sep)

\* the string a message of the service stands for
messageText(tokens) == joinWith(tokens, " ")

\* the string a data URL of the service stands for
urlText(tokens) == joinWith(tokens, "")

\* String.prototype.slice(0, n)
sliceStr(s, n) == SubSeq(s, 1, IF n < Len(s) THEN n ELSE Len(s))

\* String.prototype.trim(), for texts whose only white space is the blank
RECURSIVE trim(_)
trim(s) ==
    IF s = "" THEN s
    ELSE IF SubSeq(s, 1, 1) = " " THEN trim(SubSeq(s, 2, Len(s)))
    ELSE IF SubSeq(s, Len(s), Len(s)) = " " THEN trim(SubSeq(s, 1, Len(s) - 1))
    ELSE s

\* encodeURIComponent of one character: letters, digits and - _ . ! ~ * ' ( )
\* stay, everything else is percent-encoded
encodeChar(ch) ==
    CASE ch = " " -> "%20"
      [] ch = ":" -> "%3A"
      [] ch = "/" -> "%2F"
      [] ch = "[" -> "%5B"
      [] ch = "]" -> "%5D"
      [] ch = "," -> "%2C"
      [] ch = ";" -> "%3B"
      [] OTHER -> ch

RECURSIVE encodeURIComponent(_)
encodeURIComponent(s) ==
    IF s = "" THEN ""
    ELSE encodeChar(SubSeq(s, 1, 1)) \o encodeURIComponent(SubSeq(s, 2, Len(s)))

TEXT_TIMEOUT == 40000
IMAGE_TIMEOUT == 180000
COOLDOWN_SECONDS == 12
PANEL_COUNT == 3
MAX_HISTORY == 20

\* the fallback values handed to withTimeout
memeTimeoutFallback == Meme("Error generating prompt", "Error", "Timeout")
scriptTimeoutFallback == <<>>
imageTimeoutFallback == [imageUrl |-> <<>>, error |-> <<"Timeout">>]

\* imageResult.imageUrl, or the placeholder that shows the error reason
memeImageUrl(imageResult) ==
    IF imageResult.imageUrl # <<>> THEN urlText(imageResult.imageUrl)
    ELSE LET errorReason == IF imageResult.error # <<>>
                            THEN messageText(imageResult.error)
                            ELSE "Render Failed"
         IN  "https://placehold.co/800x800/1f2937/ffffff?text="
                 \o encodeURIComponent(sliceStr(errorReason, 30))
                 \o "&font=roboto"

panelImageUrl(imageResult, i) ==
    IF imageResult.imageUrl # <<>> THEN urlText(imageResult.imageUrl)
    ELSE LET errorText == IF imageResult.error # <<>>
                          THEN messageText(imageResult.error)
                          ELSE "Panel " \o ToString(i + 1) \o " Error"
         IN  "https://placehold.co/600x600/ffffff/000000?text="
                 \o encodeURIComponent(sliceStr(errorText, 20))
                 \o "&font=roboto"

\* null, for currentMeme, currentComic and the values not yet computed
Null == [type |-> "null"]

MemeData(id, textData, imageUrl) ==
    [id |-> id, type |-> "SINGLE", visualPrompt |-> textData.visualPrompt,
     topText |-> textData.topText, bottomText |-> textData.bottomText,
     imageUrl |-> imageUrl, isLoading |-> FALSE]

ComicData(id, topic, panels, isLoading) ==
    [id |-> id, type |-> "COMIC", topic |-> topic, panels |-> panels,
     isLoading |-> isLoading]

\* {...p, imageUrl}
withImageUrl(p, imageUrl) ==
    [panelNumber |-> p.panelNumber, description |-> p.description,
     caption |-> p.caption, imageUrl |-> imageUrl]

\* scriptData.panels.slice(0, panelCount).map(p => ({...p, imageUrl: undefined}))
initialPanelsOf(panels) ==
    LET cut == slice0(panels, PANEL_COUNT)
    IN  [n \in 1 .. Len(cut) |-> withImageUrl(cut[n], Undefined)]

\* prev.filter(i => i.id !== item.id)
RECURSIVE filterOutId(_, _)
filterOutId(prev, id) ==
    IF prev = <<>> THEN <<>>
    ELSE IF prev[1].id = id THEN filterOutId(Tail(prev), id)
    ELSE <<prev[1]>> \o filterOutId(Tail(prev), id)

\* an updater that appends the new item and keeps the oldest MAX_HISTORY
historyWith_Append(prev, item) ==
    slice0(filterOutId(prev, item.id) \o <<item>>, MAX_HISTORY)

\* the updater of addToHistory
historyWith(prev, item) ==
    slice0(<<item>> \o filterOutId(prev, item.id), MAX_HISTORY)

(***************************************************************************)
(* The state of the App component.  abortControllerRef holds the id of    *)
(* the run whose AbortController it refers to, 0 for null.                 *)
(***************************************************************************)
appStart ==
    [activeTab |-> "SINGLE", topic |-> "", isGenerating |-> FALSE,
     statusMessage |-> "System Idle", history |-> <<>>, coolDownSeconds |-> 0,
     abortControllerRef |-> 0, currentMeme |-> Null, currentComic |-> Null]

(***************************************************************************)
(* One invocation of handleGenerate that passed its guard.  type, topic    *)
(* and statusMessage are the values of the render the handler closed       *)
(* over; aborted is signal.aborted; call is the index in svc of the        *)
(* service call the run awaits (0: none); pc is the await it stands at:    *)
(*   "s_text" "s_image"             the two awaits of the single flow      *)
(*   "c_script" "c_delay" "c_cool" "c_image"   those of the comic flow     *)
(*   "done"                         the handler returned                   *)
(* published, added and started count the run's setCurrentMeme /           *)
(* setCurrentComic calls, its addToHistory calls and the service calls it  *)
(* started; threw tells whether it threw; atAbort holds these counts, the  *)
(* remote calls made for the run, and where the run stood, at the moment   *)
(* it was aborted; remoteAtEnd holds the remote calls made for the run     *)
(* when its handler returned; snaps holds, for every comic snapshot the    *)
(* run published, the imageUrl of each of its panels; trace holds the      *)
(* image calls and cooldown seconds of the run in their order; refAtEnd    *)
(* holds abortControllerRef as the handler returned; lateWrites counts the *)
(* calls of setStatusMessage and setCoolDownSeconds the run made after it  *)
(* was cancelled and a newer run had started.                              *)
(***************************************************************************)
NoMark ==
    [published |-> 0, added |-> 0, started |-> 0, remote |-> 0, pc |-> "none",
     i |-> 0, timeLeft |-> 0]

runStart(id, a) ==
    [id |-> id, type |-> a.activeTab, topic |-> a.topic,
     statusMessage |-> a.statusMessage, pc |-> "start", aborted |-> FALSE,
     call |-> 0, textData |-> Meme(Undefined, Undefined, Undefined),
     updatedPanels |-> <<>>, currentComicState |-> Null, i |-> 0,
     timeLeft |-> 0, threw |-> FALSE, published |-> 0, added |-> 0,
     started |-> 0, atAbort |-> NoMark, remoteAtEnd |-> 0, snaps |-> <<>>,
     trace |-> <<>>, refAtEnd |-> 0, lateWrites |-> 0]

(***************************************************************************)
(* A piece of the handler maps a context to a context: the App state, the  *)
(* run, and the service call the piece started ("none" when it did not).   *)
(***************************************************************************)
Ctx(a, run) == [app |-> a, run |-> run, new |-> "none"]

\* the run of c was cancelled and a newer run has started
isSuperseded(c) == c.run.aborted /\ c.app.abortControllerRef # c.run.id

setStatusMessage(c, s) ==
    [c EXCEPT !.app.statusMessage = s,
              !.run.lateWrites = IF isSuperseded(c) THEN @ + 1 ELSE @]

setCoolDownSeconds(c, n) ==
    [c EXCEPT !.app.coolDownSeconds = n,
              !.run.lateWrites = IF isSuperseded(c) THEN @ + 1 ELSE @]

setCurrentMeme(c, v) ==
    [c EXCEPT !.app.currentMeme = v, !.run.published = @ + 1]

\* the imageUrl of every panel of a comic
imageUrlsOf(comic) ==
    [n \in DOMAIN comic.panels |-> comic.panels[n].imageUrl]

setCurrentComic(c, v) ==
    [c EXCEPT !.app.currentComic = v, !.run.published = @ + 1,
              !.run.snaps = Append(@, imageUrlsOf(v))]

addToHistory(c, item) ==
    [c EXCEPT !.app.history = historyWith(@, item), !.run.added = @ + 1]

\* await withTimeout(generate...(...), ms, fallback): the call is started
startCall(c, kind, pc) ==
    [c EXCEPT !.new = kind, !.run.pc = pc, !.run.started = @ + 1,
              !.run.trace = IF kind = "image" THEN Append(@, "image") ELSE @]

\* a second of a cooldown window has passed (recorded in the run's trace)
tick(c) == [c EXCEPT !.run.trace = Append(@, "tick")]

\* the catch block of handleGenerate
catchBlock(c) ==
    LET c1 == [c EXCEPT !.run.threw = TRUE]
    IN  IF c.run.aborted THEN c1
        ELSE setStatusMessage(c1, "Error: Generation Failed")

\* a finally block without the test of abortControllerRef
finallyBlock_Always(c) ==
    LET c1 == [c EXCEPT !.run.pc = "done",
                        !.run.refAtEnd = c.app.abortControllerRef]
    IN  [c1 EXCEPT !.app.isGenerating = FALSE,
                   !.app.statusMessage =
                       IF c.run.statusMessage # "Error: Generation Failed"
                       THEN "System Idle" ELSE @,
                   !.app.coolDownSeconds = 0]

\* the finally block of handleGenerate; refAtEnd records the controller that
\* was the current one when the handler returned
finallyBlock(c) ==
    LET c1 == [c EXCEPT !.run.pc = "done",
                        !.run.refAtEnd = c.app.abortControllerRef]
    IN  IF c.app.abortControllerRef = c.run.id
        THEN [c1 EXCEPT !.app.isGenerating = FALSE,
                        !.app.statusMessage =
                            IF c.run.statusMessage # "Error: Generation Failed"
                            THEN "System Idle" ELSE @,
                        !.app.coolDownSeconds = 0]
        ELSE c1

\* single flow, after the text arrived
afterMemeText(c, textData) ==
    IF c.run.aborted THEN finallyBlock(c)
    ELSE startCall(setStatusMessage([c EXCEPT !.run.textData = textData],
                                    "Rendering meme image..."),
                   "image", "s_image")

\* single flow, after the image result arrived
afterMemeImage(c, imageResult) ==
    IF c.run.aborted THEN finallyBlock(c)
    ELSE LET newMeme == MemeData(c.run.id, c.run.textData,
                                 memeImageUrl(imageResult))
         IN  finallyBlock(addToHistory(setCurrentMeme(c, newMeme), newMeme))

\* comic flow, after the script arrived
afterScript(c, panels) ==
    IF c.run.aborted THEN finallyBlock(c)
    ELSE IF Len(panels) = 0 THEN finallyBlock(catchBlock(c))
    ELSE LET initialPanels == initialPanelsOf(panels)
             comicWithScript ==
                 ComicData(c.run.id, c.run.topic, initialPanels, FALSE)
         IN  [setCurrentComic(c, comicWithScript)
                 EXCEPT !.run.updatedPanels = initialPanels,
                        !.run.currentComicState = comicWithScript,
                        !.run.i = 0,
                        !.run.pc = "c_delay"]

\* an end of the comic flow that adds the comic without the test of the signal
afterLoop_Always(c) ==
    finallyBlock(addToHistory(c, c.run.currentComicState))

\* comic flow, after the panel loop
afterLoop(c) ==
    finallyBlock(IF ~c.run.aborted THEN addToHistory(c, c.run.currentComicState)
                 ELSE c)

\* a loop body without the abort check that follows the cooldown
renderPanel_NoAbortCheck(c) ==
    startCall(setStatusMessage(c,
                  "Rendering panel " \o ToString(c.run.i + 1) \o "/"
                      \o ToString(Len(c.run.updatedPanels)) \o "..."),
              "image", "c_image")

\* the loop body from the second abort check to the await of the image
renderPanel(c) ==
    IF c.run.aborted THEN afterLoop(c)
    ELSE startCall(setStatusMessage(c,
                       "Rendering panel " \o ToString(c.run.i + 1) \o "/"
                           \o ToString(Len(c.run.updatedPanels)) \o "..."),
                   "image", "c_image")

\* a cooldown while loop without the test of the signal
coolWhile_NoAbortCheck(c) ==
    IF c.run.timeLeft > 0
    THEN [setStatusMessage(setCoolDownSeconds(c, c.run.timeLeft),
              "Cooling down AI... resuming in " \o ToString(c.run.timeLeft)
                  \o "s")
             EXCEPT !.run.pc = "c_cool"]
    ELSE renderPanel(setCoolDownSeconds(c, 0))

\* the cooldown while loop, from its test to the await of the next second
coolWhile(c) ==
    IF c.run.timeLeft > 0 /\ ~c.run.aborted
    THEN [setStatusMessage(setCoolDownSeconds(c, c.run.timeLeft),
              "Cooling down AI... resuming in " \o ToString(c.run.timeLeft)
                  \o "s")
             EXCEPT !.run.pc = "c_cool"]
    ELSE renderPanel(setCoolDownSeconds(c, 0))

\* a for loop that cools down before the first panel as well
loopTop_CoolBeforeFirst(c) ==
    IF c.run.i >= Len(c.run.updatedPanels) THEN afterLoop(c)
    ELSE IF c.run.aborted THEN afterLoop(c)
    ELSE coolWhile([c EXCEPT !.run.timeLeft = COOLDOWN_SECONDS])

\* the for loop, from its test to the next await
loopTop(c) ==
    IF c.run.i >= Len(c.run.updatedPanels) THEN afterLoop(c)
    ELSE IF c.run.aborted THEN afterLoop(c)
    ELSE IF c.run.i > 0
    THEN coolWhile([c EXCEPT !.run.timeLeft = COOLDOWN_SECONDS])
    ELSE renderPanel(c)

\* a loop body that builds each snapshot from the panels without images
afterPanelImage_FromScript(c, imageResult) ==
    IF c.run.aborted THEN afterLoop(c)
    ELSE LET i == c.run.i
             panel == c.run.updatedPanels[i + 1]
             updatedPanels ==
                 [initialPanelsOf(c.run.updatedPanels) EXCEPT
                     ![i + 1] = withImageUrl(panel, panelImageUrl(imageResult, i))]
             currentComicState ==
                 [c.run.currentComicState EXCEPT !.panels = updatedPanels]
         IN  loopTop([setCurrentComic(c, currentComicState)
                         EXCEPT !.run.updatedPanels = updatedPanels,
                                !.run.currentComicState = currentComicState,
                                !.run.i = i + 1])

\* comic flow, after the image result of panel i arrived
afterPanelImage(c, imageResult) ==
    IF c.run.aborted THEN afterLoop(c)
    ELSE LET i == c.run.i
             panel == c.run.updatedPanels[i + 1]
             updatedPanels ==
                 [c.run.updatedPanels EXCEPT
                     ![i + 1] = withImageUrl(panel, panelImageUrl(imageResult, i))]
             currentComicState ==
                 [c.run.currentComicState EXCEPT !.panels = updatedPanels]
         IN  loopTop([setCurrentComic(c, currentComicState)
                         EXCEPT !.run.updatedPanels = updatedPanels,
                                !.run.currentComicState = currentComicState,
                                !.run.i = i + 1])

(***************************************************************************)
(* The handleGenerate of src/App.tsx, the orchestrator of the revisions    *)
(* other than part_000.  It has no AbortController, no withTimeout and no  *)
(* stop button.  Its state lives in the same record: status is held in     *)
(* statusMessage and coolDown in coolDownSeconds; abortControllerRef stays *)
(* 0.  Every service it calls catches its own errors and resolves with an  *)
(* object that has panels, so neither the throw of line 107 nor the catch  *)
(* block is ever entered.                                                  *)
(***************************************************************************)
TsxCoolDown == 2
TsxMaxHistory == 15

isTsx == rev # "p000"

appStartTsx == [appStart EXCEPT !.statusMessage = "SYSTEM_IDLE"]

setStatus(c, s) == setStatusMessage(c, s)
setCoolDown(c, n) == setCoolDownSeconds(c, n)

\* the updater of saveToHistory
saveToHistory(c, item) ==
    [c EXCEPT !.app.history =
                  slice0(<<item>> \o filterOutId(@, item.id), TsxMaxHistory),
              !.run.added = @ + 1]

\* image.imageUrl || 'https://placehold.co/800x600?text=Render_Error'
memeImageUrlTsx(image) ==
    IF image.imageUrl # <<>> THEN urlText(image.imageUrl)
    ELSE "https://placehold.co/800x600?text=Render_Error"

\* img.imageUrl || the placeholder of panel i
panelImageUrlTsx(image, i) ==
    IF image.imageUrl # <<>> THEN urlText(image.imageUrl)
    ELSE "https://placehold.co/600x600?text=Panel_" \o ToString(i + 1)
             \o "_Failed"

\* the finally block: the handler returns and leaves a timer of 500 ms
finallyTsx(c) == [c EXCEPT !.run.pc = "f_timer"]

\* the callback of the finally block's timer
readyTsx(c) ==
    [setCoolDown(setStatus(c, "SYSTEM_READY"), 0)
        EXCEPT !.app.isGenerating = FALSE, !.run.pc = "done"]

\* single flow, after the text arrived
afterMemeTextTsx(c, textData) ==
    startCall(setStatus([c EXCEPT !.run.textData = textData],
                        "RENDERING_PIXELS..."),
              "image", "s_image")

\* single flow, after the image result arrived
afterMemeImageTsx(c, image) ==
    LET res == MemeData(c.run.id, c.run.textData, memeImageUrlTsx(image))
    IN  finallyTsx(saveToHistory(setCurrentMeme(c, res), res))

\* the for loop over the panels, from its test to the await of the image
loopTopTsx(c) ==
    IF c.run.i >= Len(c.run.updatedPanels) THEN finallyTsx(c)
    ELSE startCall(setStatus(c, "PANEL_" \o ToString(c.run.i + 1) \o "_OF_"
                                    \o ToString(Len(c.run.updatedPanels))
                                    \o "..."),
                   "image", "c_image")

\* comic flow, after the script arrived: every panel of the script is kept
afterScriptTsx(c, panels) ==
    LET initialPanels ==
            [n \in 1 .. Len(panels) |-> withImageUrl(panels[n], Undefined)]
        initialComic == ComicData(c.run.id, c.run.topic, initialPanels, TRUE)
    IN  loopTopTsx([setCurrentMeme(setCurrentComic(c, initialComic), Null)
                       EXCEPT !.run.updatedPanels = initialPanels,
                              !.run.currentComicState = initialComic,
                              !.run.i = 0])

\* a loop body that ends the run when the image result carries no image
afterPanelImageTsx_GiveUp(c, image) ==
    LET i == c.run.i
        isLast == i = Len(c.run.updatedPanels) - 1
        accumulatedPanels ==
            [c.run.updatedPanels EXCEPT
                ![i + 1] = withImageUrl(@, panelImageUrlTsx(image, i))]
        updatedComic ==
            [c.run.currentComicState EXCEPT !.panels = accumulatedPanels,
                                            !.isLoading = ~isLast]
        c1 == [setCurrentComic(c, updatedComic)
                  EXCEPT !.run.updatedPanels = accumulatedPanels]
    IN  IF image.imageUrl = <<>> THEN finallyTsx(setStatus(c, "PROCESS_HALTED"))
        ELSE IF isLast
        THEN loopTopTsx([saveToHistory(c1, updatedComic) EXCEPT !.run.i = i + 1])
        ELSE [setCoolDown(c1, TsxCoolDown)
                 EXCEPT !.run.pc = "c_cool", !.run.timeLeft = TsxCoolDown]

\* a loop body that publishes before the image of panel i has arrived
afterPanelImageTsx_Early(c, image) ==
    LET i == c.run.i
        isLast == i = Len(c.run.updatedPanels) - 1
        accumulatedPanels ==
            [c.run.updatedPanels EXCEPT
                ![i + 1] = withImageUrl(@, panelImageUrlTsx(image, i))]
        updatedComic ==
            [c.run.currentComicState EXCEPT !.panels = c.run.updatedPanels,
                                            !.isLoading = ~isLast]
        c1 == [setCurrentComic(c, updatedComic)
                  EXCEPT !.run.updatedPanels = accumulatedPanels]
    IN  IF isLast
        THEN loopTopTsx([saveToHistory(c1, updatedComic) EXCEPT !.run.i = i + 1])
        ELSE [setCoolDown(c1, TsxCoolDown)
                 EXCEPT !.run.pc = "c_cool", !.run.timeLeft = TsxCoolDown]

\* comic flow, after the image result of panel i arrived; currentComicState
\* holds initialComic and updatedPanels holds accumulatedPanels
afterPanelImageTsx(c, image) ==
    LET i == c.run.i
        isLast == i = Len(c.run.updatedPanels) - 1
        accumulatedPanels ==
            [c.run.updatedPanels EXCEPT
                ![i + 1] = withImageUrl(@, panelImageUrlTsx(image, i))]
        updatedComic ==
            [c.run.currentComicState EXCEPT !.panels = accumulatedPanels,
                                            !.isLoading = ~isLast]
        c1 == [setCurrentComic(c, updatedComic)
                  EXCEPT !.run.updatedPanels = accumulatedPanels]
    IN  IF isLast
        THEN loopTopTsx([saveToHistory(c1, updatedComic) EXCEPT !.run.i = i + 1])
        ELSE [setCoolDown(c1, TsxCoolDown)
                 EXCEPT !.run.pc = "c_cool", !.run.timeLeft = TsxCoolDown]

\* the cooldown loop after its await: the next second, or the next panel
coolTickTsx(c) ==
    IF c.run.timeLeft - 1 > 0
    THEN [setCoolDown(c, c.run.timeLeft - 1) EXCEPT !.run.timeLeft = @ - 1]
    ELSE loopTopTsx([setCoolDown(c, 0) EXCEPT !.run.timeLeft = 0,
                                             !.run.i = @ + 1])

\* the handler from its guard to its first await
generateFromTsx(c) ==
    IF c.run.type = "SINGLE"
    THEN startCall(setStatus(setCurrentMeme(c, Null), "ANALYZING_HUMOR..."),
                   "meme", "s_text")
    ELSE startCall(setStatus(c, "COMIC_SCRIPTING..."), "script", "c_script")

\* the handler resumes from the await it stands at with the value awaited
resume(c, value) ==
    LET c1 == [c EXCEPT !.run.call = 0]
    IN  IF isTsx
        THEN CASE c.run.pc = "s_text" -> afterMemeTextTsx(c1, value)
               [] c.run.pc = "s_image" -> afterMemeImageTsx(c1, value)
               [] c.run.pc = "c_script" -> afterScriptTsx(c1, value)
               [] c.run.pc = "c_image" -> afterPanelImageTsx(c1, value)
        ELSE CASE c.run.pc = "s_text" -> afterMemeText(c1, value)
               [] c.run.pc = "s_image" -> afterMemeImage(c1, value)
               [] c.run.pc = "c_script" -> afterScript(c1, value)
               [] c.run.pc = "c_image" -> afterPanelImage(c1, value)

\* the handler from its guard to its first await
generateFrom(c) ==
    IF c.run.type = "SINGLE"
    THEN startCall(setStatusMessage(setCurrentMeme(c, Null),
                                    "Generating witty captions..."),
                   "meme", "s_text")
    ELSE startCall(setStatusMessage(
                       setCurrentComic(c, ComicData(c.run.id, c.run.topic,
                                                    <<>>, TRUE)),
                       "Writing comic script..."),
                   "script", "c_script")

(***************************************************************************)
(* The service calls of the runs.  A call goes on by itself whether or not *)
(* a run still awaits it: withTimeout leaves the promise it lost interest  *)
(* in running, and nothing hands the abort signal to the service.          *)
(***************************************************************************)
svcStart(r, owner, kind) ==
    [owner |-> owner, kind |-> kind, timedOut |-> FALSE,
     st |-> CASE kind = "meme" -> txtStart(r, "meme", 0)
              [] kind = "script" -> txtStart(r, "script", PANEL_COUNT)
              [] kind = "image" -> imgStart(r)]

\* the value the call's promise resolved with
resultOf(s) ==
    CASE s.kind = "meme" -> s.st.meme
      [] s.kind = "script" -> s.st.panels
      [] s.kind = "image" -> s.st.result

\* the value withTimeout resolves with when its timer wins the race
fallbackOf(kind) ==
    CASE kind = "meme" -> memeTimeoutFallback
      [] kind = "script" -> scriptTimeoutFallback
      [] kind = "image" -> imageTimeoutFallback

timeoutOf(kind) == IF kind = "image" THEN IMAGE_TIMEOUT ELSE TEXT_TIMEOUT

\* a remote call of service call k is in flight
inFlight(k) == svc[k].st.pc = "try" /\ svc[k].st.rs.pc = "call"

\* run r awaits service call k, and the race of withTimeout is still open
awaits(r, k) == runs[r].pc # "done" /\ runs[r].call = k /\ ~svc[k].timedOut

RECURSIVE remoteCallsFrom(_, _, _)
remoteCallsFrom(calls, r, k) ==
    IF k > Len(calls) THEN 0
    ELSE (IF calls[k].owner = r THEN calls[k].st.calls ELSE 0)
             + remoteCallsFrom(calls, r, k + 1)

\* the remote calls made so far on behalf of run r
remoteCallsOf(r) == remoteCallsFrom(svc, r, 1)

(***************************************************************************)
(* Bounds and inputs of the orchestrator's specification.                  *)
(***************************************************************************)
MaxRuns == 2
MaxFaults == 2

\* a budget that is never used up
Unlimited == 0 - 1
spend(n) == IF n = Unlimited THEN n ELSE n - 1

\* What the user and the remote API may do in one behaviour: the number of
\* submissions that pass the guard, of remote calls that fail (reject, or
\* answer without an image) and of withTimeout timers that win their race.
\* Either the user generates MaxRuns times and the API behaves, or the user
\* generates once and the API fails MaxFaults times and is as slow as it likes.
Budget(nRuns, nFaults, nTimeouts) ==
    [runs |-> nRuns, faults |-> nFaults, timeouts |-> nTimeouts]

ManyRuns == Budget(MaxRuns, 0, 0)
BadApi == Budget(1, MaxFaults, Unlimited)

\* or the user generates once and the API fails often enough for every
\* candidate of an image call to fail, and answers in time
NoImageApi == Budget(1, MaxFaults + 1, 0)

Topics == {"", "  ", "Vim"}
Tabs == {"SINGLE", "COMIC"}

AppErrors ==
    { Err(429, 0, 0, <<"Resource", "exhausted">>),
      Err(404, 0, 0, <<"model", "imagen", "is", "not", "found", "for",
                       "this", "API", "version">>) }
AppRandoms == {500}

AppMemeTexts == { <<"{", "vp=a", "top=t", "bot=b", "}">>, <<"null">> }
AppPanelCounts == {"panels=0", "panels=2", "panels=4"}
AppScriptTexts == { <<"{", p, "}">> : p \in AppPanelCounts }

\* the new state after run r went through a piece of the handler
Commit(r, c, calls) ==
    LET k == Len(calls) + 1
        run == IF c.new # "none" THEN [c.run EXCEPT !.call = k]
               ELSE IF c.run.pc = "done"
               THEN [c.run EXCEPT !.remoteAtEnd = remoteCallsFrom(calls, r, 1)]
               ELSE c.run
    IN  /\ app' = c.app
        /\ runs' = IF r > Len(runs) THEN Append(runs, run)
                   ELSE [runs EXCEPT ![r] = run]
        /\ svc' = IF c.new = "none" THEN calls
                  ELSE Append(calls, svcStart(rev, r, c.new))

\* a step that hands the value of a call to its run although the race of
\* withTimeout is over, when the run awaits a later call of the same kind
SvcStep_Late(k, st) ==
    LET calls == [svc EXCEPT ![k].st = st]
        r == svc[k].owner
    IN  IF /\ st.pc = "done" /\ runs[r].pc # "done" /\ runs[r].call # 0
           /\ svc[runs[r].call].kind = svc[k].kind
           /\ ~svc[runs[r].call].timedOut
        THEN Commit(r, resume(Ctx(app, runs[r]), resultOf(calls[k])), calls)
        ELSE svc' = calls /\ UNCHANGED <<app, runs>>

\* service call k moved to st; if that resolved its promise and a run still
\* awaits it, the run resumes in the same step
SvcStep(k, st) ==
    LET calls == [svc EXCEPT ![k].st = st]
        r == svc[k].owner
    IN  IF st.pc = "done" /\ awaits(r, k)
        THEN Commit(r, resume(Ctx(app, runs[r]), resultOf(calls[k])), calls)
        ELSE svc' = calls /\ UNCHANGED <<app, runs>>

InitApp ==
    /\ rev = "p000"
    /\ rt = Unused /\ img = Unused /\ txt = Unused
    /\ app = appStart
    /\ runs = <<>>
    /\ svc = <<>>
    /\ env \in {ManyRuns, BadApi, NoImageApi}

\* onChange of the topic textarea, which is disabled while generating
SetTopic ==
    /\ ~app.isGenerating
    /\ \E t \in Topics : app' = [app EXCEPT !.topic = t]
    /\ UNCHANGED <<rev, rt, img, txt, runs, svc, env>>

\* onClick of a tab button
SetActiveTab ==
    /\ \E t \in Tabs : app' = [app EXCEPT !.activeTab = t]
    /\ UNCHANGED <<rev, rt, img, txt, runs, svc, env>>

\* a handler whose guard tests the topic alone
HandleGenerate_TopicOnly ==
    /\ env.runs > 0
    /\ IF trim(app.topic) = ""
       THEN UNCHANGED <<app, runs, svc>>
       ELSE LET id == Len(runs) + 1
                a1 == [app EXCEPT !.isGenerating = TRUE,
                                  !.statusMessage = "Compiling humor...",
                                  !.abortControllerRef = id]
            IN  Commit(id, generateFrom(Ctx(a1, runStart(id, app))), svc)
    /\ env' = [env EXCEPT !.runs = @ - 1]
    /\ UNCHANGED <<rev, rt, img, txt>>

\* the form is submitted: handleGenerate up to its first await; env.runs
\* counts the submissions left, accepted or not
HandleGenerate ==
    /\ env.runs > 0
    /\ IF trim(app.topic) = "" \/ app.isGenerating
       THEN UNCHANGED <<app, runs, svc>>
       ELSE LET id == Len(runs) + 1
                a1 == [app EXCEPT !.isGenerating = TRUE,
                                  !.statusMessage = "Compiling humor...",
                                  !.abortControllerRef = id]
            IN  Commit(id, generateFrom(Ctx(a1, runStart(id, app))), svc)
    /\ env' = [env EXCEPT !.runs = @ - 1]
    /\ UNCHANGED <<rev, rt, img, txt>>

\* AbortController.abort()
abort(run, remote) ==
    IF run.aborted THEN run
    ELSE [run EXCEPT !.aborted = TRUE,
                     !.atAbort = [published |-> run.published,
                                  added |-> run.added,
                                  started |-> run.started,
                                  remote |-> remote, pc |-> run.pc,
                                  i |-> run.i, timeLeft |-> run.timeLeft]]

\* onClick of the SIGKILL button, shown while generating
HandleStop ==
    /\ app.isGenerating
    /\ runs' = IF app.abortControllerRef # 0
               THEN [runs EXCEPT ![app.abortControllerRef] =
                        abort(@, remoteCallsOf(app.abortControllerRef))]
               ELSE runs
    /\ app' = [app EXCEPT !.isGenerating = FALSE, !.coolDownSeconds = 0,
                          !.statusMessage = "Aborted by user"]
    /\ UNCHANGED <<rev, rt, img, txt, svc, env>>

\* the timer of delay(1000) fired.  Timers of the same delay fire in the
\* order they were set, and an older run that still waits on one set it
\* before it was cancelled, hence before the newer run started.
DelayFires ==
    /\ \E r \in DOMAIN runs :
          /\ runs[r].pc \in {"c_delay", "c_cool"}
          /\ \A q \in 1 .. r - 1 : runs[q].pc \notin {"c_delay", "c_cool"}
          /\ LET c == Ctx(app, runs[r])
             IN  IF runs[r].pc = "c_delay"
                 THEN Commit(r, loopTop(c), svc)
                 ELSE Commit(r, coolWhile(tick([c EXCEPT !.run.timeLeft = @ - 1])),
                             svc)
    /\ UNCHANGED <<rev, rt, img, txt, env>>

\* a withTimeout whose timer fires without resolving the race
TimeoutFires_NoResolve ==
    /\ env.timeouts # 0
    /\ \E r \in DOMAIN runs, k \in DOMAIN svc :
          /\ awaits(r, k) /\ svc[k].st.pc # "done"
          /\ svc' = [svc EXCEPT ![k].timedOut = TRUE]
    /\ env' = [env EXCEPT !.timeouts = spend(@)]
    /\ UNCHANGED <<rev, rt, img, txt, app, runs>>

\* the timer of withTimeout fired before the call resolved
TimeoutFires ==
    /\ env.timeouts # 0
    /\ \E r \in DOMAIN runs, k \in DOMAIN svc :
          /\ awaits(r, k) /\ svc[k].st.pc # "done"
          /\ Commit(r, resume(Ctx(app, runs[r]), fallbackOf(svc[k].kind)),
                    [svc EXCEPT ![k].timedOut = TRUE])
    /\ env' = [env EXCEPT !.timeouts = spend(@)]
    /\ UNCHANGED <<rev, rt, img, txt>>

\* what candidate m of an image call may answer: with or without an image
imagesOf(m, withImage) ==
    { v \in ImageResponses(IMAGE_MODELS_PRIORITY(rev)[m]) :
         (imageOf(rev, IMAGE_MODELS_PRIORITY(rev)[m], v) # <<>>) = withImage }

\* a remote call resolved (an image call: with an image)
SvcRemoteReturns ==
    /\ \E k \in DOMAIN svc :
          /\ inFlight(k)
          /\ CASE svc[k].kind = "meme" ->
                    \E text \in AppMemeTexts :
                       SvcStep(k, txtOnResponse(rev, svc[k].st, Resp(text, <<>>, "")))
               [] svc[k].kind = "script" ->
                    \E text \in AppScriptTexts :
                       SvcStep(k, txtOnResponse(rev, svc[k].st, Resp(text, <<>>, "")))
               [] svc[k].kind = "image" ->
                    \E v \in imagesOf(svc[k].st.m, TRUE) :
                       SvcStep(k, imgOnResponse(rev, svc[k].st, v))
    /\ UNCHANGED <<rev, rt, img, txt, env>>

\* a remote call of an image call resolved with a response without an image
SvcRemoteReturnsNoImage ==
    /\ env.faults > 0
    /\ \E k \in DOMAIN svc :
          /\ inFlight(k) /\ svc[k].kind = "image"
          /\ \E v \in imagesOf(svc[k].st.m, FALSE) :
                SvcStep(k, imgOnResponse(rev, svc[k].st, v))
    /\ env' = [env EXCEPT !.faults = @ - 1]
    /\ UNCHANGED <<rev, rt, img, txt>>

\* a remote call rejected
SvcRemoteThrows ==
    /\ env.faults > 0
    /\ \E k \in DOMAIN svc, e \in AppErrors, rnd \in AppRandoms :
          /\ inFlight(k)
          /\ IF svc[k].kind = "image"
             THEN SvcStep(k, imgOnError(rev, svc[k].st, e, rnd))
             ELSE SvcStep(k, txtOnError(rev, svc[k].st, e, rnd))
    /\ env' = [env EXCEPT !.faults = @ - 1]
    /\ UNCHANGED <<rev, rt, img, txt>>

\* the backoff timer of a retryWithBackoff fired
SvcBackoffFires ==
    /\ \E k \in DOMAIN svc :
          /\ svc[k].st.pc = "try" /\ svc[k].st.rs.pc = "wait"
          /\ IF svc[k].kind = "image"
             THEN SvcStep(k, imgOnBackoff(svc[k].st))
             ELSE SvcStep(k, txtOnBackoff(svc[k].st))
    /\ UNCHANGED <<rev, rt, img, txt, env>>

\* the cooldown timer of generateImageFromPrompt's catch block fired
SvcCooldownFires ==
    /\ \E k \in DOMAIN svc :
          /\ svc[k].st.pc = "cooldown"
          /\ SvcStep(k, imgOnCooldown(rev, svc[k].st))
    /\ UNCHANGED <<rev, rt, img, txt, env>>

NextApp ==
    \/ SetTopic \/ SetActiveTab \/ HandleGenerate \/ HandleStop
    \/ DelayFires \/ TimeoutFires
    \/ SvcRemoteReturns \/ SvcRemoteReturnsNoImage \/ SvcRemoteThrows
    \/ SvcBackoffFires \/ SvcCooldownFires

SpecApp == InitApp /\ [][NextApp]_vars

(***************************************************************************)
(* SpecAppFair: one generation against an API that may fail once and may   *)
(* leave any remote call unanswered for ever.  The timers set with         *)
(* setTimeout (delay, withTimeout) do fire; nothing makes the remote API   *)
(* answer, nor the user click.                                             *)
(***************************************************************************)
SlowApi == Budget(1, 1, Unlimited)

InitSlowApi ==
    /\ rev = "p000"
    /\ rt = Unused /\ img = Unused /\ txt = Unused
    /\ app = appStart
    /\ runs = <<>>
    /\ svc = <<>>
    /\ env = SlowApi

\* a timer of withTimeout is pending: ENABLED <<TimeoutFires>>_vars
TimeoutPending ==
    /\ env.timeouts # 0
    /\ \E r \in DOMAIN runs, k \in DOMAIN svc :
          awaits(r, k) /\ svc[k].st.pc # "done"

\* WF_vars(TimeoutFires), its ENABLED written as the state predicate above
FairTimeout == <>[]TimeoutPending => []<><<TimeoutFires>>_vars

SpecAppFair ==
    InitSlowApi /\ [][NextApp]_vars /\ WF_vars(DelayFires) /\ FairTimeout

(***************************************************************************)
(* SpecAppTsx: the App component of src/App.tsx over the service of        *)
(* part_001 or of either revision of services/geminiService.ts.  The user  *)
(* may edit the topic, switch tabs, open a history item and clear the      *)
(* history at any time; the submit button is disabled while generating.    *)
(***************************************************************************)
TsxRevisions == {"qa", "rev1", "rev2"}

FailingApi == Budget(1, MaxFaults, 0)

InitAppTsx ==
    /\ rev \in TsxRevisions
    /\ rt = Unused /\ img = Unused /\ txt = Unused
    /\ app = appStartTsx
    /\ runs = <<>>
    /\ svc = <<>>
    /\ env \in {ManyRuns, FailingApi}

\* onChange of the topic textarea
SetTopicTsx ==
    /\ \E t \in Topics : app' = [app EXCEPT !.topic = t]
    /\ UNCHANGED <<rev, rt, img, txt, runs, svc, env>>

\* the form is submitted: handleGenerate up to its first await
HandleGenerateTsx ==
    /\ env.runs > 0
    /\ IF trim(app.topic) = "" \/ app.isGenerating
       THEN UNCHANGED <<app, runs, svc>>
       ELSE LET id == Len(runs) + 1
                a1 == [app EXCEPT !.isGenerating = TRUE,
                                  !.statusMessage = "INITIALIZING..."]
            IN  Commit(id, generateFromTsx(Ctx(a1, runStart(id, app))), svc)
    /\ env' = [env EXCEPT !.runs = @ - 1]
    /\ UNCHANGED <<rev, rt, img, txt>>

\* a timer of the cooldown between two panels fired
CoolDownFires ==
    /\ \E r \in DOMAIN runs :
          /\ runs[r].pc = "c_cool"
          /\ Commit(r, coolTickTsx(tick(Ctx(app, runs[r]))), svc)
    /\ UNCHANGED <<rev, rt, img, txt, env>>

\* the timer of the finally block fired
ReadyTimerFires ==
    /\ \E r \in DOMAIN runs :
          /\ runs[r].pc = "f_timer"
          /\ Commit(r, readyTsx(Ctx(app, runs[r])), svc)
    /\ UNCHANGED <<rev, rt, img, txt, env>>

\* onClick of an item of the history list
SelectHistoryItem ==
    /\ \E n \in DOMAIN app.history :
          LET item == app.history[n]
          IN  app' = IF item.type = "SINGLE"
                     THEN [app EXCEPT !.currentMeme = item,
                                      !.activeTab = "SINGLE",
                                      !.currentComic = Null]
                     ELSE [app EXCEPT !.currentComic = item,
                                      !.activeTab = "COMIC",
                                      !.currentMeme = Null]
    /\ UNCHANGED <<rev, rt, img, txt, runs, svc, env>>

\* onClick of the clear history button, confirmed
ClearHistory ==
    /\ app' = [app EXCEPT !.history = <<>>]
    /\ UNCHANGED <<rev, rt, img, txt, runs, svc, env>>

NextAppTsx ==
    \/ SetTopicTsx \/ SetActiveTab \/ HandleGenerateTsx
    \/ SelectHistoryItem \/ ClearHistory
    \/ CoolDownFires \/ ReadyTimerFires
    \/ SvcRemoteReturns \/ SvcRemoteReturnsNoImage \/ SvcRemoteThrows
    \/ SvcBackoffFires \/ SvcCooldownFires

SpecAppTsx == InitAppTsx /\ [][NextAppTsx]_vars


(***************************************************************************)
(* Claims about the orchestrator (checked under SpecApp and SpecAppFair).  *)
(***************************************************************************)

\* C7: once handleStop has aborted a run, that run publishes no further
\* snapshot (setCurrentMeme / setCurrentComic), adds nothing to the history,
\* starts no further service call and does not throw: it stays at the await
\* it was suspended at and its first resumption ends it.  This holds wherever
\* the cancel arrives: during a remote call, the initial delay or any second
\* of the cooldown.
C7_AbortedRunStopsQuietly ==
    \A r \in DOMAIN runs :
        runs[r].aborted =>
            /\ runs[r].published = runs[r].atAbort.published
            /\ runs[r].added = runs[r].atAbort.added
            /\ runs[r].started = runs[r].atAbort.started
            /\ ~runs[r].threw
            /\ runs[r].pc \in {runs[r].atAbort.pc, "done"}
            /\ \A n \in DOMAIN app.history : app.history[n].id # runs[r].id

\* a comic run cancelled in the 7th remaining second of the cooldown before
\* its second panel has ended, the first panel's snapshot being its last
C7_Witness ==
    \E r \in DOMAIN runs :
        /\ runs[r].aborted /\ runs[r].pc = "done"
        /\ runs[r].atAbort.pc = "c_cool" /\ runs[r].atAbort.timeLeft = 7
        /\ runs[r].published = 3 /\ runs[r].started = 2
        /\ app.history = <<>>

\* the panels of a comic that carry an image
withImage(comic) ==
    { n \in DOMAIN comic.panels : comic.panels[n].imageUrl # Undefined }

\* C8: when a comic run is cancelled while the image of panel k is being
\* generated, the last snapshot it published has images for panels 1..k-1
\* and for no other panel, and once the run has observed the cancellation
\* and returned no remote call is made for it any more, retries and later
\* candidates of the image call that was in flight included.
C8_NoRemoteCallAfterCancel ==
    \A r \in DOMAIN runs :
        (/\ runs[r].aborted /\ runs[r].atAbort.pc = "c_image"
         /\ runs[r].pc = "done") =>
            /\ withImage(runs[r].currentComicState) = 1 .. runs[r].atAbort.i
            /\ remoteCallsOf(r) = runs[r].remoteAtEnd

\* C9: at most one remote call made on behalf of the orchestrator is in
\* flight at any moment.
C9_OneRemoteCallInFlight ==
    Cardinality({ k \in DOMAIN svc : inFlight(k) }) <= 1

\* the run stood at the await of service call k when withTimeout's timer won,
\* and had not been aborted
timedOutUnaborted(k) ==
    /\ svc[k].timedOut
    /\ ~runs[svc[k].owner].aborted

\* C10: every started generation ends, isGenerating returning to false, even
\* when remote calls never complete; a timeout resolves the awaited step to
\* its fallback value and the flow goes on from there: after a text timeout
\* the meme is built from the fallback texts and the image step is entered,
\* after a script timeout (no panels) the run ends without any image call,
\* after an image timeout the meme or panel gets the "Timeout" placeholder.
C10_EveryGenerationEnds ==
    /\ app.isGenerating ~> ~app.isGenerating
    /\ (Len(runs) >= 1) ~> (Len(runs) >= 1 /\ runs[1].pc = "done")
    /\ [](\A k \in DOMAIN svc :
            timedOutUnaborted(k) =>
                LET run == runs[svc[k].owner]
                IN  CASE svc[k].kind = "meme" ->
                            run.textData = memeTimeoutFallback /\ run.started = 2
                      [] svc[k].kind = "script" ->
                            run.pc = "done" /\ run.started = 1 /\ run.threw
                      [] svc[k].kind = "image" ->
                            \/ run.type = "COMIC"
                               /\ \E n \in DOMAIN run.updatedPanels :
                                     run.updatedPanels[n].imageUrl
                                         = panelImageUrl(imageTimeoutFallback, n - 1)
                            \/ run.type = "SINGLE" /\ run.pc = "done"
                               /\ app.history[1].imageUrl
                                      = memeImageUrl(imageTimeoutFallback))

\* a single run has ended whose text call and whose image call both timed
\* out: the meme shown carries the fallback texts and the placeholder
C10_Witness ==
    /\ Len(runs) = 1 /\ runs[1].pc = "done" /\ ~runs[1].aborted
    /\ ~app.isGenerating
    /\ Len(svc) = 2 /\ svc[1].timedOut /\ svc[2].timedOut
    /\ inFlight(1) /\ inFlight(2)
    /\ app.currentMeme.topText = "Error"
    /\ app.currentMeme.bottomText = "Timeout"
    /\ app.currentMeme.imageUrl
           = "https://placehold.co/800x800/1f2937/ffffff?text=Timeout&font=roboto"

(***************************************************************************)
(* Claims about the comic snapshots (checked under SpecApp and SpecAppTsx) *)
(***************************************************************************)

\* the panels of a published snapshot that carry an image
imagesIn(snap) == { n \in DOMAIN snap : snap[n] # Undefined }

\* the image calls started so far by run r
imageCallsOf(r) ==
    Cardinality({ k \in DOMAIN svc : svc[k].owner = r /\ svc[k].kind = "image" })

\* C11: in every comic snapshot a run published, the panels that carry an
\* imageUrl are exactly the first k panels; from one snapshot to the next k
\* stays 0 (the snapshots published before the first image) or grows by
\* exactly one; and the run has started at most one image call more than the
\* k of its latest snapshot, so the call for panel k+1 is dispatched only
\* after the snapshot with the image of panel k has been published.
C11_ImagesFillInOrder ==
    \A r \in DOMAIN runs :
        LET s == runs[r].snaps
        IN  runs[r].type = "COMIC" =>
              /\ \A j \in DOMAIN s :
                    imagesIn(s[j]) = 1 .. Cardinality(imagesIn(s[j]))
              /\ \A j \in 1 .. Len(s) - 1 :
                    \/ imagesIn(s[j + 1]) = {} /\ imagesIn(s[j]) = {}
                    \/ Cardinality(imagesIn(s[j + 1]))
                          = Cardinality(imagesIn(s[j])) + 1
              /\ imageCallsOf(r)
                    <= (IF s = <<>> THEN 0
                        ELSE Cardinality(imagesIn(s[Len(s)])) + 1)

\* a comic run awaits the image of its third panel, its latest snapshot
\* showing the images of panels 1 and 2 and no other
C11_Witness ==
    \E r \in DOMAIN runs :
        /\ runs[r].type = "COMIC" /\ runs[r].pc = "c_image" /\ runs[r].i = 2
        /\ imageCallsOf(r) = 3
        /\ runs[r].snaps # <<>>
        /\ imagesIn(runs[r].snaps[Len(runs[r].snaps)]) = {1, 2}
        /\ Len(runs[r].snaps[Len(runs[r].snaps)]) >= 3

\* C12: once a snapshot of a comic shows an imageUrl for a panel, every
\* later snapshot the same run publishes shows that panel with the same
\* imageUrl: it is never replaced and never goes back to undefined.
C12_PanelImageNeverChanges ==
    \A r \in DOMAIN runs :
        LET s == runs[r].snaps
        IN  \A j \in DOMAIN s : \A later \in j + 1 .. Len(s) :
               \A n \in imagesIn(s[j]) :
                  n \in DOMAIN s[later] /\ s[later][n] = s[j][n]

\* a run published the image of panel 1 and, in a later snapshot, the same
\* image of panel 1 next to a different image of panel 2
C12_Witness ==
    \E r \in DOMAIN runs :
        \E j \in DOMAIN runs[r].snaps : \E later \in j + 1 .. Len(runs[r].snaps) :
            /\ imagesIn(runs[r].snaps[j]) = {1}
            /\ imagesIn(runs[r].snaps[later]) = {1, 2}
            /\ runs[r].snaps[later][1] = runs[r].snaps[j][1]
            /\ runs[r].snaps[later][2] # runs[r].snaps[j][1]

\* C13: a comic run whose script has no panels (the service's result or the
\* fallback of the timeout) starts no image call, adds nothing to the
\* history and ends as failed: once its handler has finished, with
\* isGenerating false, the status shown is "Error: Generation Failed".
C13_ZeroPanelRunEndsFailed ==
    \A r \in DOMAIN runs :
        (runs[r].threw /\ runs[r].pc = "done") =>
            /\ imageCallsOf(r) = 0
            /\ runs[r].added = 0
            /\ (r = Len(runs) /\ ~app.isGenerating)
                  => app.statusMessage = "Error: Generation Failed"

\* the part of C13 that the code keeps: no image call, nothing in the
\* history, and the handler leaves isGenerating false
C13_ZeroPanelRunMakesNothing ==
    \A r \in DOMAIN runs :
        (runs[r].threw /\ runs[r].pc = "done") =>
            /\ imageCallsOf(r) = 0
            /\ runs[r].added = 0
            /\ \A n \in DOMAIN app.history : app.history[n].id # runs[r].id
            /\ r = Len(runs) => ~app.isGenerating

\* a zero-panel run has finished and the status shown is the idle one
C13_Witness ==
    \E r \in DOMAIN runs :
        /\ runs[r].threw /\ runs[r].pc = "done" /\ r = Len(runs)
        /\ ~app.isGenerating
        /\ app.statusMessage = "System Idle"

\* the handler of run r has returned
finished(r) == runs[r].pc \in {"f_timer", "done"}

\* the image result of a panel was an error result: the panel shows a
\* placeholder, which no data URL is
isPlaceholder(url) ==
    url # Undefined /\ Len(url) >= 21 /\ SubSeq(url, 1, 21) = "https://placehold.co/"

exactlyOneSet(result) == (result.imageUrl # <<>>) # (result.error # <<>>)

\* C15: every image result handed to the orchestrator, the one an image call
\* resolved with as well as the one withTimeout substitutes when its timer
\* wins, has exactly one of imageUrl and error set.
C15_ImageResultHasOneField ==
    \A k \in DOMAIN svc :
        svc[k].kind = "image" =>
            /\ svc[k].st.pc = "done" => exactlyOneSet(resultOf(svc[k]))
            /\ svc[k].timedOut => exactlyOneSet(fallbackOf(svc[k].kind))

\* an image call whose every candidate failed resolved in time with an error
\* result, and the run that awaited it has gone on
C15_Witness ==
    \E k \in DOMAIN svc :
        /\ svc[k].kind = "image" /\ svc[k].st.pc = "done" /\ ~svc[k].timedOut
        /\ resultOf(svc[k]).error # <<>> /\ resultOf(svc[k]).imageUrl = <<>>
        /\ Len(svc[k].st.hist) = Len(IMAGE_MODELS_PRIORITY(rev))
        /\ runs[svc[k].owner].call # k

(***************************************************************************)
(* Further claims about generateImageFromPrompt (checked under SpecImage). *)
(***************************************************************************)

\* C16: a candidate whose response carries no image payload (text only, or
\* nothing) counts as failed: the call does not resolve with a result for
\* it; if a later candidate exists that one is dispatched next, at once
\* (no cooldown); if it was the last candidate the call resolves with an
\* error result.
C16_NoImageIsFailedCandidate ==
    \A j \in DOMAIN img.hist :
        img.hist[j] = "noimage" =>
            /\ j < Len(IMAGE_MODELS_PRIORITY(rev)) => img.m > j
            /\ j = Len(IMAGE_MODELS_PRIORITY(rev)) =>
                  /\ img.pc = "done"
                  /\ img.result.imageUrl = <<>>
                  /\ img.result.error # <<>>
            /\ j = Len(img.hist) =>
                  /\ img.pc # "cooldown"
                  /\ img.pc = "try" => img.m = j + 1
            /\ (img.pc = "done" /\ img.result.imageUrl # <<>>) => j < Len(img.hist)

\* part_000: all three candidates answered without an image, the last one
\* with text only; the call resolved with the error result "Unknown Error"
C16_Witness ==
    /\ rev = "p000" /\ img.pc = "done"
    /\ img.hist = <<"noimage", "noimage", "noimage">>
    /\ img.rs.last.val.text = <<"I", "cannot", "draw">>
    /\ img.calls = 3
    /\ img.result = [imageUrl |-> <<>>, error |-> UnknownError]

\* C17 (part_000): while the catch block waits after a candidate has
\* thrown, the wait is 8000 ms when the error thrown is a quota error (status
\* 429, or a message with a quota marker, as retryWithBackoff classifies it)
\* and 1500 ms for any other error; the candidate is not left before the
\* wait is over.
C17_CooldownByFailureKind ==
    (rev = "p000" /\ img.pc = "cooldown") =>
        /\ img.cooldown = IF isQuotaError(img.rs.last.err) THEN 8000 ELSE 1500
        /\ img.m = Len(img.hist) /\ img.rs.pc = "thrown"

\* what the catch blocks of part_000 and of geminiService.ts (first
\* revision) do keep: the longer wait exactly when the catch block's own
\* test (status 429; in part_000 also a message with "429") holds, the
\* shorter one otherwise, the longer one strictly longer, and the next
\* candidate dispatched only once the wait is over
C17_CooldownByCatchTest ==
    /\ \A r \in {"p000", "rev1"} : QuotaCooldown(r) > OtherCooldown(r)
    /\ (rev \in {"p000", "rev1"} /\ img.pc = "cooldown") =>
          /\ img.cooldown = IF catchIsQuota(rev, img.rs.last.err)
                            THEN QuotaCooldown(rev) ELSE OtherCooldown(rev)
          /\ img.m = Len(img.hist) /\ img.rs.pc = "thrown"
    /\ (rev \in {"p000", "rev1"} /\ img.pc = "try" /\ img.m > 1
           /\ img.hist[img.m - 1] \in {"quota", "other"})
          => img.cooldown > 0

\* part_000: a candidate gave up on an error that says "Quota exceeded"
\* without a status, and the catch block waits the shorter cooldown
C17_Witness ==
    /\ rev = "p000" /\ img.pc = "cooldown"
    /\ img.rs.last.err = Err(0, 0, 0, <<"Quota", "exceeded">>)
    /\ img.rs.calls = 5
    /\ img.cooldown = 1500

C19_ThrowsLastError ==
    rt.pc = "thrown" =>
        /\ ~rt.out.ok /\ ~rt.last.ok
        /\ rt.out.err = rt.last.err
        /\ rt.out.err \in Errors

\* two calls failed with errors that were retried, the third call failed
\* with an invalid argument error, which is not retried though two retries
\* are left, and that error is the one thrown
C19_Witness ==
    /\ rt.pc = "thrown" /\ rt.init = 4 /\ rt.calls = 3 /\ rt.retries = 2
    /\ rt.out.err = Err(400, 0, 0, <<"invalid", "argument">>)

\* the budget of two retries was used up and the third call failed with a
\* quota error, which is the one thrown
C19_WitnessExhausted ==
    /\ rt.pc = "thrown" /\ rt.init = 2 /\ rt.calls = 3 /\ rt.retries = 0
    /\ rt.out.err = Err(429, 0, 0, <<"Resource", "exhausted">>)

\* C20 (part_000): every wait that follows a quota failure (status 429, or
\* a message containing "429", "Quota" or "Too Many Requests") lasts at
\* least 5000 ms, whatever the jitter and the base delay.
C20_QuotaWaitAtLeastFloor ==
    (rev = "p000" /\ rt.pc = "wait" /\ isQuotaError(rt.last.err))
        => rt.wait >= MinQuotaDelay

\* what part_000 does keep: the floor is applied before the jitter, so the
\* wait is at least three quarters of the floor and of the current delay
C20_QuotaWaitAtLeastJitteredFloor ==
    (rev = "p000" /\ rt.pc = "wait" /\ isQuotaError(rt.last.err))
        => /\ 4 * rt.wait >= 3 * MinQuotaDelay
           /\ 4 * rt.wait >= 3 * rt.delay

\* a first call failed with status 429, the base delay is 1000 ms and the
\* jitter is the lowest: the wait is 3750 ms
C20_Witness ==
    /\ rev = "p000" /\ rt.pc = "wait" /\ rt.calls = 1 /\ rt.delay = 1000
    /\ rt.last.err = Err(429, 0, 0, <<"Resource", "exhausted">>)
    /\ rt.wait = 3750

RECURSIVE pow(_, _)
pow(b, e) == IF e <= 0 THEN 1 ELSE b * pow(b, e - 1)

\* C21 (part_000): called with base delay d and factor f, the delay of the
\* k-th wait is d * f^(k-1); when the failure waited for is a server error
\* or a network failure (and no quota failure) the wait is that delay times
\* a jitter between 0.75 and 1.25; and the delay handed to the next retry is
\* never smaller than the current one.
C21_ExponentialBackoff ==
    (rev = "p000" /\ rt.pc = "wait") =>
        /\ rt.delay = rt.base * pow(rt.factor, rt.waits - 1)
        /\ rt.next >= rt.delay
        /\ ((isServerError(rt.last.err) \/ isNetworkError(rt.last.err))
               /\ ~isQuotaError(rt.last.err))
              => /\ 4 * rt.wait >= 3 * rt.delay
                 /\ 4 * rt.wait <= 5 * rt.delay

\* the third wait, after a server error, of an invocation with base delay
\* 1000 and factor 3: the delay is 9000 and the jitter is the lowest
C21_Witness ==
    /\ rev = "p000" /\ rt.pc = "wait" /\ rt.waits = 3
    /\ rt.base = 1000 /\ rt.factor = 3 /\ rt.delay = 9000
    /\ isServerError(rt.last.err)
    /\ rt.wait = 6750

(***************************************************************************)
(* Claims about cleanJson (checked under SpecClean).                       *)
(***************************************************************************)

\* the text holds a "{" followed later by a "}"
hasBraceSpan(text) ==
    \E i, j \in DOMAIN text : i < j /\ text[i] = "{" /\ text[j] = "}"

\* the text holds a fenced block: an opening and a later closing fence
hasFence(text) ==
    \E i, j \in DOMAIN text : i < j /\ text[i] = "FENCE" /\ text[j] = "FENCE"

\* C22: cleanJson returns every text that holds no brace-delimited span,
\* the empty text included, as it is.
C22_NoBracesUnchanged ==
    (txt.pc = "cleaned" /\ ~hasBraceSpan(txt.text)) => txt.out = txt.text

\* what every revision keeps: a text that is not empty, holds no
\* brace-delimited span and (second revision of geminiService.ts) no fenced
\* block is returned as it is; the empty text becomes "{}"
C22_PlainTextUnchanged ==
    txt.pc = "cleaned" =>
        /\ (txt.text # <<>> /\ ~hasBraceSpan(txt.text)
               /\ ~(rev = "rev2" /\ hasFence(txt.text)))
              => txt.out = txt.text
        /\ txt.text = <<>> => txt.out = <<"{", "}">>

\* the empty text was cleaned, and the result is "{}"
C22_Witness ==
    txt.pc = "cleaned" /\ txt.text = <<>> /\ txt.out = <<"{", "}">>

\* the text without its leading and trailing white space
trimSpace(s) ==
    SubSeq(s, skipSpace(s, 1), skipSpaceBack(s, Len(s), skipSpace(s, 1)))

\* the content of the first fenced block: what stands between the opening
\* fence, with its language tag, and the next fence, white space trimmed
fencedContent(text) ==
    LET i == CHOOSE k \in DOMAIN text :
                 text[k] = "FENCE" /\ \A l \in 1 .. (k - 1) : text[l] # "FENCE"
        j == CHOOSE k \in (i + 1) .. Len(text) :
                 text[k] = "FENCE" /\ \A l \in (i + 1) .. (k - 1) : text[l] # "FENCE"
        inner == SubSeq(text, i + 1, j - 1)
    IN  trimSpace(IF inner # <<>> /\ Head(inner) = "json" THEN Tail(inner) ELSE inner)

\* from the first "{" to the last "}" inclusive
firstToLastBrace(text) ==
    SubSeq(text,
           CHOOSE i \in DOMAIN text :
               text[i] = "{" /\ \A l \in 1 .. (i - 1) : text[l] # "{",
           CHOOSE j \in DOMAIN text :
               text[j] = "}" /\ \A l \in (j + 1) .. Len(text) : text[l] # "}")

\* C23: cleanJson returns the content of the fenced block when the text
\* holds one, and otherwise the span from the first "{" to the last "}".
C23_FencedContentElseBraceSpan ==
    txt.pc = "cleaned" =>
        IF hasFence(txt.text)
        THEN txt.out = fencedContent(txt.text)
        ELSE hasBraceSpan(txt.text) => txt.out = firstToLastBrace(txt.text)

\* what the code keeps: the second revision of geminiService.ts does as
\* C23 says; the other revisions ignore fences and return the brace span
\* of every text that has one
C23_BraceSpanAndFenceInRev2 ==
    txt.pc = "cleaned" =>
        IF rev = "rev2" /\ hasFence(txt.text)
        THEN txt.out = fencedContent(txt.text)
        ELSE hasBraceSpan(txt.text) => txt.out = firstToLastBrace(txt.text)

\* the first revision of geminiService.ts cleaned a fenced text without
\* braces and returned it with its fences
C23_Witness ==
    /\ rev = "rev1" /\ txt.pc = "cleaned"
    /\ txt.text = <<"FENCE", "json", "NL", "word", "FENCE">>
    /\ txt.out = txt.text

(***************************************************************************)
(* Further claims about the orchestrators.                                 *)
(***************************************************************************)

\* the string s holds the string sub
contains(s, sub) ==
    \E i \in 1 .. (Len(s) - Len(sub) + 1) : SubSeq(s, i, i + Len(sub) - 1) = sub

\* the n-th image call run r started (0 when there is none)
nthImageCall(r, n) ==
    LET mine == { k \in DOMAIN svc : svc[k].owner = r /\ svc[k].kind = "image" }
    IN  IF \E k \in mine : Cardinality({ l \in mine : l < k }) = n - 1
        THEN CHOOSE k \in mine : Cardinality({ l \in mine : l < k }) = n - 1
        ELSE 0

\* the image result the orchestrator got from service call k
imageResultOf(k) ==
    IF svc[k].timedOut THEN fallbackOf("image") ELSE resultOf(svc[k])

\* url shows the image result: its data URL, or a placeholder whose query
\* text embeds the error reason cut to n characters
showsResult(url, result, n) ==
    /\ url # Undefined /\ url # ""
    /\ IF result.imageUrl # <<>>
       THEN url = urlText(result.imageUrl)
       ELSE /\ isPlaceholder(url)
            /\ contains(url, "?text="
                   \o encodeURIComponent(sliceStr(messageText(result.error), n)))

\* url is the data URL of the result or some placeholder, never blank
showsSomething(url, result) ==
    /\ url # Undefined /\ url # ""
    /\ IF result.imageUrl # <<>>
       THEN url = urlText(result.imageUrl)
       ELSE isPlaceholder(url)

\* the single memes on display or in the history that run r made
memesOf(r) ==
    { app.history[h] : h \in { h \in DOMAIN app.history :
                                  /\ app.history[h].type = "SINGLE"
                                  /\ app.history[h].id = runs[r].id } }
        \cup (IF app.currentMeme # Null /\ app.currentMeme.id = runs[r].id
              THEN {app.currentMeme} ELSE {})

\* every meme and every rendered panel of every run satisfies shows(url,
\* image result, length of the cut)
everyImage(shows(_, _, _)) ==
    \A r \in DOMAIN runs :
        /\ (runs[r].type = "SINGLE" /\ finished(r) /\ ~runs[r].aborted
               /\ ~runs[r].threw) =>
              /\ nthImageCall(r, 1) # 0
              /\ \A m \in memesOf(r) :
                    shows(m.imageUrl, imageResultOf(nthImageCall(r, 1)), 30)
        /\ runs[r].type = "COMIC" =>
              \A n \in DOMAIN runs[r].updatedPanels :
                  (n <= runs[r].i /\ nthImageCall(r, n) # 0) =>
                      shows(runs[r].updatedPanels[n].imageUrl,
                            imageResultOf(nthImageCall(r, n)), 20)

showsSomething3(url, result, n) == showsSomething(url, result)

\* C24: the meme of every single run and every rendered panel of a comic
\* carries an imageUrl that is not blank: the data URL the image generator
\* returned, or a placeholder whose query text embeds the error reason cut
\* to 30 (meme) or 20 (panel) characters.
C24_DataUrlOrReasonPlaceholder == everyImage(showsResult)

\* what both orchestrators keep: the imageUrl is never blank, it is the data
\* URL or a placeholder
C24_DataUrlOrPlaceholder == everyImage(showsSomething3)

\* a single run of App.tsx whose image call failed on every candidate has
\* returned, and its meme shows the placeholder with the fixed text
C24_Witness ==
    \E r \in DOMAIN runs :
        /\ runs[r].type = "SINGLE" /\ finished(r)
        /\ imageResultOf(nthImageCall(r, 1)).error # <<>>
        /\ \E m \in memesOf(r) :
              m.imageUrl = "https://placehold.co/800x600?text=Render_Error"

\* part_002: a panel whose image call failed shows the reason cut to 20
\* characters, and a meme whose image call failed the reason cut to 30
C24_WitnessCut ==
    \/ \E r \in DOMAIN runs :
          /\ runs[r].type = "COMIC" /\ runs[r].i >= 1
          /\ runs[r].updatedPanels[1].imageUrl
                = "https://placehold.co/600x600/ffffff/000000?text="
                      \o "model%20imagen%20is%20not%20" \o "&font=roboto"
    \/ \E r \in DOMAIN runs : \E m \in memesOf(r) :
          m.imageUrl = "https://placehold.co/800x800/1f2937/ffffff?text="
                           \o "model%20imagen%20is%20not%20found%20for%20"
                           \o "&font=roboto"

(***************************************************************************)
(* SpecAppSingle: part_002 over part_000, the single tab.  The user has    *)
(* typed a topic, submits once and watches; the API may reject up to       *)
(* MaxStubborn remote calls, enough for a text call and for a candidate of *)
(* the image call to run out of retries; the timers of withTimeout may     *)
(* fire.                                                                   *)
(***************************************************************************)
MaxStubborn == 9

StubbornApi == Budget(1, MaxStubborn, Unlimited)

InitAppSingle ==
    /\ rev = "p000"
    /\ rt = Unused /\ img = Unused /\ txt = Unused
    /\ app = [appStart EXCEPT !.topic = "Vim"]
    /\ runs = <<>>
    /\ svc = <<>>
    /\ env = StubbornApi

NextAppSingle ==
    \/ HandleGenerate \/ TimeoutFires
    \/ SvcRemoteReturns \/ SvcRemoteReturnsNoImage \/ SvcRemoteThrows
    \/ SvcBackoffFires \/ SvcCooldownFires

SpecAppSingle == InitAppSingle /\ [][NextAppSingle]_vars

\* the text call run r started (0 when there is none)
textCallOf(r) ==
    IF \E k \in DOMAIN svc : svc[k].owner = r /\ svc[k].kind = "meme"
    THEN CHOOSE k \in DOMAIN svc : svc[k].owner = r /\ svc[k].kind = "meme"
    ELSE 0

\* the text call of run r failed on every attempt and the run got what the
\* catch block of generateMemeText returned
textFailedOnAllRetries(r) ==
    LET k == textCallOf(r)
    IN  /\ k # 0 /\ ~svc[k].timedOut
        /\ svc[k].st.pc = "done" /\ svc[k].st.rs.pc = "thrown"
        /\ svc[k].st.calls = TextRetries(rev) + 1

\* the image call of run r: candidate 1 ran out of retries on 429, then
\* candidate 2 answered with an image, before the timer of withTimeout
secondCandidateAfter429(r) ==
    LET k == nthImageCall(r, 1)
    IN  /\ k # 0 /\ ~svc[k].timedOut
        /\ svc[k].st.pc = "done"
        /\ svc[k].st.hist = <<"quota", "image">>

\* C25 (part_002 over part_000): a single run whose text call failed on all
\* retries and whose image call succeeded on the second candidate after the
\* first was rejected with 429 ends with a meme on display and in the
\* history whose topText and bottomText are the fallback strings of
\* generateMemeText and whose imageUrl is the data URL of the second
\* candidate, not a placeholder.
C25_FallbackTextAndSecondImage ==
    \A r \in DOMAIN runs :
        (runs[r].type = "SINGLE" /\ finished(r) /\ ~runs[r].aborted
            /\ textFailedOnAllRetries(r) /\ secondCandidateAfter429(r)) =>
            /\ app.currentMeme # Null /\ app.currentMeme.id = runs[r].id
            /\ \E h \in DOMAIN app.history : app.history[h] = app.currentMeme
            /\ \A m \in memesOf(r) :
                  /\ m.topText = "Kogda kod upal"
                  /\ m.bottomText = "A ty ne znaesh pochemu"
                  /\ m.imageUrl = "data:image/jpeg;base64,SlBFRw"
                  /\ ~isPlaceholder(m.imageUrl)

\* such a run has ended: four rejected text calls, five rejected calls of
\* candidate 1, one answered call of candidate 2
C25_Witness ==
    \E r \in DOMAIN runs :
        /\ runs[r].type = "SINGLE" /\ finished(r) /\ ~runs[r].aborted
        /\ textFailedOnAllRetries(r) /\ secondCandidateAfter429(r)
        /\ svc[nthImageCall(r, 1)].st.calls = ImageRetries(rev) + 2
        /\ env.faults = 0
        /\ app.currentMeme # Null
        /\ app.currentMeme.imageUrl = "data:image/jpeg;base64,SlBFRw"

\* the length in seconds of a cooldown window of the orchestrator in use
CoolDownLength == IF isTsx THEN TsxCoolDown ELSE COOLDOWN_SECONDS

\* n image calls with a full cooldown window before each but the first
RECURSIVE paced(_)
paced(n) ==
    IF n <= 0 THEN <<>>
    ELSE IF n = 1 THEN <<"image">>
    ELSE paced(n - 1) \o [s \in 1 .. CoolDownLength |-> "tick"] \o <<"image">>

\* C26: a comic run that was not cancelled waits a full cooldown window (12
\* seconds in part_002, 2 in App.tsx) between any two consecutive image calls
\* and nowhere else: while it runs its image calls and cooldown seconds are
\* a prefix of image, window, image, ..., and once it has returned with N
\* panels they are exactly N image calls with N - 1 windows between them,
\* none after the last panel.
C26_CooldownBetweenPanels ==
    \A r \in DOMAIN runs :
        (runs[r].type = "COMIC" /\ ~runs[r].aborted) =>
            LET N == Len(runs[r].updatedPanels)
                t == runs[r].trace
            IN  /\ Len(t) <= Len(paced(N))
                /\ t = SubSeq(paced(N), 1, Len(t))
                /\ (finished(r) /\ ~runs[r].threw) => t = paced(N)
                /\ runs[r].pc = "c_cool" => t # <<>> /\ Len(t) < Len(paced(N))

\* a comic run of three panels has returned after two cooldown windows
C26_Witness ==
    \E r \in DOMAIN runs :
        /\ runs[r].type = "COMIC" /\ ~runs[r].aborted /\ finished(r)
        /\ Len(runs[r].updatedPanels) = 3
        /\ Len(runs[r].trace) = 3 + 2 * CoolDownLength
        /\ runs[r].trace[2] = "tick" /\ runs[r].trace[Len(runs[r].trace)] = "image"

(***************************************************************************)
(* SpecHistory: the history list of the App component and its copy in      *)
(* localStorage, in part_002 (rev = "p000") and in App.tsx (rev = "rev2"). *)
(* A generation ends and adds an item; the id of an item is Date.now(),    *)
(* fresh unless the clock was set back (MaxCollisions times at most).      *)
(* localStorage.setItem succeeds or throws, as the browser decides.        *)
(* env holds the environment and the history variables:                   *)
(*   clock     the greatest id given out so far                            *)
(*   stored    "none", "current" (the last setItem wrote the history as it *)
(*             is now) or "stale"                                          *)
(*   effect    part_002: the effect on [history] is scheduled              *)
(*   escaped   where an exception of setItem went: "no", "handler" (out of *)
(*             saveToHistory into handleGenerate), "render" (out of the    *)
(*             updater while React renders App)                            *)
(*   last, prev, fresh   the item added last, the history before that      *)
(*             addition, and whether nothing changed the history since     *)
(*   tries     the failed saves since the last addition                    *)
(*   full      the history as the last addition or clearing left it        *)
(*   logged    a save failed with an error other than a quota error        *)
(***************************************************************************)
MaxClock == 23
MaxCollisions == 1

HistoryRevisions == {"p000", "rev2"}

HistoryItem(id, serial) == [id |-> id, type |-> "SINGLE", serial |-> serial]

InitHistory ==
    /\ rev \in HistoryRevisions
    /\ rt = Unused /\ img = Unused /\ txt = Unused
    /\ app = IF isTsx THEN appStartTsx ELSE appStart
    /\ runs = <<>>
    /\ svc = <<>>
    /\ env = [clock |-> 0, collisions |-> MaxCollisions, stored |-> "none",
              effect |-> FALSE, escaped |-> "no", last |-> Null, prev |-> <<>>,
              fresh |-> FALSE, tries |-> 0, serial |-> 0, full |-> <<>>,
              logged |-> FALSE]

\* the ids a new item may get: the next tick of the clock, or, the clock
\* having been set back, the id of an item of the history
NewIds ==
    (IF env.clock < MaxClock THEN {env.clock + 1} ELSE {})
        \cup (IF env.collisions > 0
              THEN { app.history[h].id : h \in DOMAIN app.history } ELSE {})

\* part_002: addToHistory(item); the effect on [history] is scheduled
AddToHistory ==
    /\ ~isTsx /\ ~env.effect
    /\ \E id \in NewIds :
          LET item == HistoryItem(id, env.serial + 1)
          IN  /\ app' = addToHistory(Ctx(app, runStart(0, app)), item).app
              /\ env' = [env EXCEPT
                           !.clock = IF id > @ THEN id ELSE @,
                           !.collisions = IF id > env.clock THEN @ ELSE @ - 1,
                           !.effect = TRUE, !.stored = "stale",
                           !.last = item, !.prev = app.history,
                           !.fresh = TRUE, !.tries = 0, !.serial = @ + 1,
                           !.full = app'.history, !.logged = FALSE]
    /\ UNCHANGED <<rev, rt, img, txt, runs, svc>>

\* part_002: the effect runs saveToStorage(history) and setItem succeeds
SaveSucceeds ==
    /\ ~isTsx /\ env.effect
    /\ env' = [env EXCEPT !.effect = FALSE, !.stored = "current"]
    /\ UNCHANGED <<rev, rt, img, txt, app, runs, svc>>

\* part_002: setItem throws a quota error: the newest half is kept and the
\* effect runs again, or, the history being empty, the key is removed
SaveHitsQuota ==
    /\ ~isTsx /\ env.effect
    /\ IF Len(app.history) > 0
       THEN /\ app' = [app EXCEPT !.history = slice0(@, Len(@) \div 2)]
            /\ env' = [env EXCEPT !.fresh = FALSE, !.tries = @ + 1]
       ELSE /\ app' = app
            /\ env' = [env EXCEPT !.effect = FALSE, !.stored = "none",
                                  !.tries = @ + 1]
    /\ UNCHANGED <<rev, rt, img, txt, runs, svc>>

\* part_002: setItem throws another error, which is logged
SaveFailsOtherwise ==
    /\ ~isTsx /\ env.effect
    /\ env' = [env EXCEPT !.effect = FALSE, !.logged = TRUE]
    /\ UNCHANGED <<rev, rt, img, txt, app, runs, svc>>

\* part_002: clearHistory, confirmed
ClearHistoryP002 ==
    /\ ~isTsx /\ ~env.effect
    /\ app' = [app EXCEPT !.history = <<>>]
    /\ env' = [env EXCEPT !.effect = TRUE, !.stored = "stale", !.fresh = FALSE,
                          !.tries = 0, !.full = <<>>, !.logged = FALSE]
    /\ UNCHANGED <<rev, rt, img, txt, runs, svc>>

\* App.tsx: saveToHistory(item), setItem succeeding inside the updater
SaveToHistory ==
    /\ isTsx /\ env.escaped = "no"
    /\ \E id \in NewIds :
          LET item == HistoryItem(id, env.serial + 1)
          IN  /\ app' = saveToHistory(Ctx(app, runStart(0, app)), item).app
              /\ env' = [env EXCEPT
                           !.clock = IF id > @ THEN id ELSE @,
                           !.collisions = IF id > env.clock THEN @ ELSE @ - 1,
                           !.stored = "current",
                           !.last = item, !.prev = app.history,
                           !.fresh = TRUE, !.serial = @ + 1,
                           !.full = app'.history]
    /\ UNCHANGED <<rev, rt, img, txt, runs, svc>>

\* App.tsx: saveToHistory(item), setItem throwing inside the updater, which
\* React runs either at once, inside the handler's try block, or with the
\* next render of App
SaveToHistoryThrows ==
    /\ isTsx /\ env.escaped = "no"
    /\ \E where \in {"handler", "render"} :
          env' = [env EXCEPT !.escaped = where, !.fresh = FALSE, !.tries = @ + 1]
    /\ UNCHANGED <<rev, rt, img, txt, app, runs, svc>>

\* App.tsx: the clear history button, confirmed
ClearHistoryTsx ==
    /\ isTsx /\ env.escaped = "no"
    /\ app' = [app EXCEPT !.history = <<>>]
    /\ env' = [env EXCEPT !.stored = "none", !.fresh = FALSE, !.full = <<>>]
    /\ UNCHANGED <<rev, rt, img, txt, runs, svc>>

NextHistory ==
    \/ AddToHistory \/ SaveSucceeds \/ SaveHitsQuota \/ SaveFailsOtherwise
    \/ ClearHistoryP002
    \/ SaveToHistory \/ SaveToHistoryThrows \/ ClearHistoryTsx

SpecHistory == InitHistory /\ [][NextHistory]_vars

\* the greatest length of the history of the orchestrator in use
HistoryCap == IF isTsx THEN TsxMaxHistory ELSE MAX_HISTORY

RECURSIVE halvings(_)
halvings(n) == IF n <= 0 THEN 0 ELSE 1 + halvings(n \div 2)

\* the quota errors one addition can meet: one per halving, and one more
\* for the empty list
MaxTries == halvings(HistoryCap) + 1

\* C28: a save that fails with a quota error trims the history to its newest
\* half and is tried again, until a save succeeds or the history is empty.
\* No storage error leaves the save: none escapes into handleGenerate or
\* into the render.  The saves of one addition fail at most MaxTries times.
\* The history is at all times the newest items of the list the last
\* addition made: no newer item is dropped while an older one is kept.
\* When no save is pending after a quota error, the last save succeeded or
\* the history is empty.
C28_TrimmedUntilSavedNeverEscapes ==
    /\ env.escaped = "no"
    /\ env.tries <= MaxTries
    /\ app.history = SubSeq(env.full, 1, Len(app.history))
    /\ (env.tries > 0 /\ ~env.effect /\ ~env.logged) =>
          (env.stored = "current" \/ app.history = <<>>)

\* what part_002 keeps: all of C28
C28_Part002TrimsUntilSaved == rev = "p000" => C28_TrimmedUntilSavedNeverEscapes

\* what App.tsx keeps: the history is never trimmed, and what localStorage
\* holds is the history, until a setItem throws
C28_TsxNeverTrims ==
    (isTsx /\ env.escaped = "no") =>
        /\ app.history = env.full
        /\ env.stored = (IF env.fresh THEN "current" ELSE "none")

\* App.tsx: setItem threw a quota error inside the updater of saveToHistory,
\* and the exception left it into the try block of handleGenerate
C28_Witness == isTsx /\ env.escaped = "handler" /\ Len(app.history) = TsxMaxHistory

\* part_002: a full history was halved five times, every save failing, and
\* the key was removed
C28_WitnessTrimmedToNothing ==
    /\ rev = "p000" /\ env.tries = MaxTries /\ ~env.effect
    /\ Len(env.full) = MAX_HISTORY /\ app.history = <<>> /\ env.stored = "none"

\* C29 (part_002): once the user has cancelled a run and as long as no new
\* run is started, the status shown is "Aborted by user": the handler that
\* unwinds does not replace it by the idle or by the failure status.
C29_AbortedStatusStays ==
    \A r \in DOMAIN runs :
        (r = Len(runs) /\ runs[r].aborted) =>
            app.statusMessage = "Aborted by user"

\* what the code keeps: the status is "Aborted by user" until the cancelled
\* handler returns; its finally block then shows "System Idle", unless the
\* run was started under the failure status; the failure status is never
\* shown for a cancelled run
C29_AbortedUntilHandlerReturns ==
    \A r \in DOMAIN runs :
        (r = Len(runs) /\ runs[r].aborted) =>
            /\ runs[r].pc # "done" => app.statusMessage = "Aborted by user"
            /\ runs[r].pc = "done" =>
                  app.statusMessage
                     = (IF runs[r].statusMessage = "Error: Generation Failed"
                        THEN "Aborted by user" ELSE "System Idle")
            /\ app.statusMessage # "Error: Generation Failed"

\* the handler of a cancelled run has returned, no run was started since,
\* and the status shown is the idle one
C29_Witness ==
    \E r \in DOMAIN runs :
        /\ r = Len(runs) /\ runs[r].aborted /\ runs[r].pc = "done"
        /\ app.abortControllerRef = runs[r].id
        /\ ~app.isGenerating
        /\ app.statusMessage = "System Idle"

(***************************************************************************)
(* SpecImageClock: generateImageFromPrompt of part_000 inside the           *)
(* withTimeout(..., 180000, ...) of part_002, with a clock.  A remote call *)
(* answers at once; time passes only in the timers of retryWithBackoff and *)
(* of the catch block.  rt.now is the time in ms since the call of         *)
(* withTimeout.  A remote call that fails is rejected for quota (retried   *)
(* behind the longest waits) or for a missing model (not retried); the     *)
(* jitter of a wait is the least or the greatest Math.random() gives.      *)
(***************************************************************************)
ClockErrors ==
    { Err(429, 0, 0, <<"Resource", "exhausted">>),
      Err(404, 0, 0, <<"model", "not", "found">>) }

ClockRandoms == {0, 999}

InitImageClock ==
    /\ AppUnused
    /\ rev = "p000"
    /\ rt = [now |-> 0]
    /\ img = imgStart(rev)
    /\ txt = Unused

ClockRemoteReturns ==
    /\ img.pc = "try" /\ img.rs.pc = "call"
    /\ \E v \in ImageResponses(IMAGE_MODELS_PRIORITY(rev)[img.m]) :
          img' = imgOnResponse(rev, img, v)
    /\ UNCHANGED <<rev, rt, txt, appVars>>

ClockRemoteThrows ==
    /\ img.pc = "try" /\ img.rs.pc = "call"
    /\ \E e \in ClockErrors, rnd \in ClockRandoms :
          img' = imgOnError(rev, img, e, rnd)
    /\ UNCHANGED <<rev, rt, txt, appVars>>

\* await new Promise(resolve => setTimeout(resolve, waitTime))
ClockBackoffFires ==
    /\ img.pc = "try" /\ img.rs.pc = "wait"
    /\ img' = imgOnBackoff(img)
    /\ rt' = [rt EXCEPT !.now = @ + img.rs.wait]
    /\ UNCHANGED <<rev, txt, appVars>>

\* await new Promise(resolve => setTimeout(resolve, 8000)), or 1500
ClockCooldownFires ==
    /\ img.pc = "cooldown"
    /\ img' = imgOnCooldown(rev, img)
    /\ rt' = [rt EXCEPT !.now = @ + img.cooldown]
    /\ UNCHANGED <<rev, txt, appVars>>

NextImageClock ==
    \/ ClockRemoteReturns \/ ClockRemoteThrows
    \/ ClockBackoffFires \/ ClockCooldownFires

SpecImageClock == InitImageClock /\ [][NextImageClock]_vars

\* the image call resolved with an image
imageSucceeded == img.pc = "done" /\ img.result.imageUrl # <<>>

\* C30 (part_002 over part_000, remote calls answering at once): whenever a
\* candidate of the image call succeeds, it does so before the 180 s timer
\* of withTimeout fires.
C30_TimeoutCoversWaits == imageSucceeded => rt.now < IMAGE_TIMEOUT

\* what the constants give: a success of the first or second candidate, and
\* one of the third candidate at its first or second call, comes before the
\* timer; no success comes later than 244.7 s
C30_TimeoutCoversTwoCandidates ==
    imageSucceeded =>
        /\ (Len(img.hist) <= 2 \/ img.rs.calls <= 2) => rt.now < IMAGE_TIMEOUT
        /\ rt.now <= 244658

\* two candidates ran out of retries on quota errors, the third answered
\* with an image at its third call, 184.7 s after the start
C30_Witness ==
    /\ imageSucceeded /\ img.hist = <<"quota", "quota", "image">>
    /\ img.rs.calls = 3
    /\ rt.now = 184681 /\ rt.now > IMAGE_TIMEOUT

\* run r was cancelled and had not returned when a newer run was started
\* (it returned while the controller of a newer run was the current one, or
\* it is still suspended)
supersededWhileSuspended(r) ==
    /\ runs[r].aborted /\ r < Len(runs)
    /\ runs[r].pc = "done" => runs[r].refAtEnd > r

\* C31 (part_002): a cancelled run that resumes after a new run was started
\* publishes nothing, adds nothing to the history and does not clear
\* isGenerating: as long as the newest run has neither returned nor been
\* cancelled, isGenerating is true and abortControllerRef is that run's
\* controller, whatever the older runs do.
C31_OnlyCurrentRunEndsRunning ==
    /\ \A r \in DOMAIN runs :
          supersededWhileSuspended(r) =>
              /\ runs[r].published = runs[r].atAbort.published
              /\ runs[r].added = runs[r].atAbort.added
              /\ \A n \in DOMAIN app.history : app.history[n].id # runs[r].id
    /\ \A r \in DOMAIN runs :
          (r = Len(runs) /\ runs[r].pc # "done" /\ ~runs[r].aborted) =>
              /\ app.isGenerating
              /\ app.abortControllerRef = runs[r].id

\* the first run was cancelled during a service call, the second run was
\* started, then the first run resumed and returned while the second is
\* still running
C31_Witness ==
    /\ Len(runs) = 2
    /\ runs[1].aborted /\ runs[1].pc = "done" /\ runs[1].refAtEnd = 2
    /\ runs[2].pc # "done" /\ ~runs[2].aborted
    /\ app.isGenerating

\* C32: a submission while isGenerating is true, or with a topic that is
\* blank after trim(), changes nothing: the state of the App component, the
\* runs and the service calls (hence the remote calls) stay as they are.
C32_BlockedStartChangesNothing ==
    [][(env'.runs # env.runs /\ (trim(app.topic) = "" \/ app.isGenerating))
          => (app' = app /\ runs' = runs /\ svc' = svc)]_vars

\* a submission was made and turned down while the first remote call of the
\* only run was in flight
C32_Witness ==
    /\ Len(runs) = 1 /\ app.isGenerating
    /\ env.runs = 0 /\ env.faults = 0 /\ env.timeouts = 0
    /\ Len(svc) = 1 /\ svc[1].st.calls = 1 /\ inFlight(1)

\* a submission with a blank topic was turned down before any run
C32_WitnessBlank ==
    /\ runs = <<>> /\ svc = <<>> /\ ~app.isGenerating
    /\ env.runs = MaxRuns - 1 /\ env.faults = 0 /\ env.timeouts = 0

\* C33: an invocation with retries = r whose operation failed on every call
\* with an error that is to be retried has, once it has thrown, made exactly
\* r + 1 calls and r waits; with r <= 0 exactly one call and no wait.  (An
\* invocation that throws an error that is to be retried has run out of
\* retries, and every earlier failure was retried.)
C33_ExactlyBudgetPlusOneCalls ==
    (rt.pc = "thrown" /\ shouldRetry(rev, rt.last.err)) =>
        IF rt.init <= 0
        THEN rt.calls = 1 /\ rt.waits = 0
        ELSE rt.calls = rt.init + 1 /\ rt.waits = rt.init

\* part_000 with retries = 4 has thrown a quota error after five calls and
\* four waits
C33_Witness ==
    /\ rev = "p000" /\ rt.pc = "thrown" /\ rt.init = 4
    /\ isQuotaError(rt.last.err)
    /\ rt.calls = 5 /\ rt.waits = 4

\* the second revision of geminiService.ts with retries = 0 has thrown a
\* server error after its only call
C33_WitnessNoRetries ==
    /\ rev = "rev2" /\ rt.pc = "thrown" /\ rt.init = 0
    /\ shouldRetry(rev, rt.last.err)
    /\ rt.calls = 1 /\ rt.waits = 0

(***************************************************************************)
(* The isLoading flag of the comic on display (App.tsx).                   *)
(***************************************************************************)
\* at least one panel of the comic has no imageUrl yet
lacksImage(comic) ==
    \E n \in DOMAIN comic.panels : comic.panels[n].imageUrl = Undefined

\* C34: in the comic flow of App.tsx the comic on display, which is the
\* snapshot published last, has isLoading true exactly when at least one of
\* its panels still lacks an imageUrl; so the last snapshot of a run, for
\* every panel count including zero, has isLoading false.
C34_LoadingIffPanelMissing ==
    (isTsx /\ app.currentComic # Null) =>
        (app.currentComic.isLoading <=> lacksImage(app.currentComic))

\* the same for the comics that have a panel
C34_LoadingIffPanelMissingNonEmpty ==
    (isTsx /\ app.currentComic # Null /\ app.currentComic.panels # <<>>) =>
        (app.currentComic.isLoading <=> lacksImage(app.currentComic))

\* a run of the comic flow has returned after a script without panels: its
\* only snapshot is on display and still loading
C34_Witness ==
    /\ isTsx /\ Len(runs) = 1 /\ runs[1].type = "COMIC"
    /\ runs[1].pc = "done" /\ runs[1].published = 2
    /\ Len(runs[1].snaps) = 1 /\ runs[1].snaps[1] = <<>>
    /\ app.currentComic # Null /\ app.currentComic.panels = <<>>
    /\ app.currentComic.isLoading /\ ~app.isGenerating

\* the last snapshot of a comic of two panels is on display, not loading
C34_WitnessFilled ==
    /\ isTsx /\ Len(runs) = 1 /\ runs[1].pc = "done"
    /\ app.currentComic # Null /\ Len(app.currentComic.panels) = 2
    /\ ~lacksImage(app.currentComic) /\ ~app.currentComic.isLoading

(***************************************************************************)
(* The comics of the history.                                              *)
(***************************************************************************)
\* the comic has a panel, and an imageUrl on every panel
complete(comic) == comic.panels # <<>> /\ ~lacksImage(comic)

\* C35: every comic stored in the history has at least one panel and an
\* imageUrl on every panel; a run of the comic flow adds its comic only
\* after its last panel has been filled, and a run that was cancelled or
\* that failed on the script adds nothing.
C35_HistoryComicsComplete ==
    /\ \A n \in DOMAIN app.history :
          app.history[n].type = "COMIC" => complete(app.history[n])
    /\ \A r \in DOMAIN runs :
          runs[r].type = "COMIC" =>
              /\ (runs[r].aborted \/ runs[r].threw) => runs[r].added = 0
              /\ runs[r].added > 0 =>
                    /\ runs[r].added = 1
                    /\ runs[r].i >= Len(runs[r].updatedPanels) - 1
                    /\ complete([panels |-> runs[r].updatedPanels])

\* a comic of PANEL_COUNT panels (the script had four) is in the history
\* after its run returned, and an
\* earlier run, cancelled while its first panel was rendered, added nothing
C35_Witness ==
    /\ Len(runs) = 2
    /\ runs[1].type = "COMIC" /\ runs[1].aborted /\ runs[1].pc = "done"
    /\ runs[1].atAbort.pc = "c_image" /\ runs[1].added = 0
    /\ runs[2].type = "COMIC" /\ runs[2].pc = "done" /\ runs[2].added = 1
    /\ Len(app.history) = 1 /\ app.history[1].id = 2
    /\ Len(app.history[1].panels) = PANEL_COUNT /\ complete(app.history[1])

\* a run failed on a script without panels and added nothing
C35_WitnessNoScript ==
    /\ Len(runs) = 1 /\ runs[1].type = "COMIC" /\ runs[1].threw
    /\ runs[1].pc = "done" /\ runs[1].added = 0 /\ app.history = <<>>

(***************************************************************************)
(* withTimeout, once its timer has won the race.                           *)
(***************************************************************************)
\* the timer of the withTimeout around service call k fires in this step
timesOut(k) == ~svc[k].timedOut /\ svc'[k].timedOut

\* service call k, whose withTimeout has timed out, moves in this step
movesLate(k) == svc[k].timedOut /\ svc'[k].st # svc[k].st

\* C36: when the timer of withTimeout fires before the wrapped call has
\* completed, the flow goes on with the fallback value while the call goes
\* on by itself; the later steps of the call, its completion by success or
\* failure included, change neither what is displayed, the history or the
\* status, nor the run.
C36_LateCompletionChangesNothing ==
    [][\A k \in DOMAIN svc :
          /\ timesOut(k) =>
                LET r == svc[k].owner
                    c == resume(Ctx(app, runs[r]), fallbackOf(svc[k].kind))
                IN  /\ app' = c.app
                    /\ svc'[k].st = svc[k].st /\ svc[k].st.pc # "done"
                    /\ runs'[r].published = c.run.published
                    /\ runs'[r].added = c.run.added
          /\ movesLate(k) => (app' = app /\ runs' = runs)]_vars

\* the image call of a meme timed out, the meme with the Timeout placeholder
\* was displayed and stored and the run returned; then the call completed
\* with an image, and the placeholder is still displayed and stored
C36_Witness ==
    /\ Len(runs) = 1 /\ runs[1].type = "SINGLE" /\ runs[1].pc = "done"
    /\ Len(svc) = 2 /\ svc[2].kind = "image" /\ svc[2].timedOut
    /\ svc[2].st.pc = "done" /\ svc[2].st.result.imageUrl # <<>>
    /\ app.currentMeme # Null
    /\ app.currentMeme.imageUrl = memeImageUrl(imageTimeoutFallback)
    /\ Len(app.history) = 1 /\ app.history[1] = app.currentMeme
    /\ app.statusMessage = "System Idle"

\* the text call of a meme timed out and the run went on with the fallback
\* text; then the call completed by failure (its remote call was rejected
\* and retryWithBackoff threw), and the run still holds the timeout's text
C36_WitnessLateFailure ==
    /\ Len(runs) = 1 /\ runs[1].type = "SINGLE"
    /\ Len(svc) = 2 /\ svc[1].kind = "meme" /\ svc[1].timedOut
    /\ svc[1].st.pc = "done" /\ svc[1].st.rs.pc = "thrown"
    /\ runs[1].pc = "s_image" /\ runs[1].textData = memeTimeoutFallback
    /\ app.statusMessage = "Rendering meme image..."

(***************************************************************************)
(* The waits between the candidates of generateImageFromPrompt.            *)
(***************************************************************************)
\* the candidate at work fails in this step, in the way given
candidateFails(how) ==
    /\ Len(img'.hist) = Len(img.hist) + 1
    /\ img'.hist[Len(img'.hist)] \in how

\* C37 (part_000): a candidate that fails by throwing is followed by a
\* cooldown wait, the last candidate of the list included, so that the error
\* result is returned only after that wait; a candidate that fails by
\* returning no image data is followed by no wait: the next candidate is
\* called, or the error result returned, at once.
C37_CooldownAfterThrowOnly ==
    [][rev = "p000" =>
          /\ candidateFails({"quota", "other"}) =>
                /\ img'.pc = "cooldown" /\ img'.cooldown > 0
                /\ img'.m = img.m /\ img'.calls = img.calls
          /\ candidateFails({"noimage"}) =>
                IF img.m < Len(IMAGE_MODELS_PRIORITY(rev))
                THEN /\ img'.pc = "try" /\ img'.rs.pc = "call"
                     /\ img'.m = img.m + 1 /\ img'.calls = img.calls + 1
                ELSE img'.pc = "done" /\ img'.result.imageUrl = <<>>
          /\ (img.pc # "done" /\ img'.pc = "done" /\ img'.hist # <<>>
                 /\ img'.hist[Len(img'.hist)] \in {"quota", "other"})
                => (img.pc = "cooldown" /\ img'.hist = img.hist)
          /\ img.pc = "cooldown" =>
                (img.hist # <<>>
                    /\ img.hist[Len(img.hist)] \in {"quota", "other"})]_vars

\* part_000: the first candidate returned no image data, the second threw
\* an error that is not a quota error, the last one threw on 429, and the
\* error result was returned after the wait that followed
C37_Witness ==
    /\ rev = "p000" /\ img.pc = "done"
    /\ img.hist = <<"noimage", "other", "quota">>
    /\ img.cooldown = QuotaCooldown(rev)
    /\ img.result.imageUrl = <<>> /\ img.result.error # <<>>

\* part_000: the wait after the last candidate is pending, nothing returned
C37_WitnessWaiting ==
    /\ rev = "p000" /\ img.pc = "cooldown"
    /\ img.m = Len(IMAGE_MODELS_PRIORITY(rev)) /\ Len(img.hist) = img.m
    /\ img.result.error = <<>>

(***************************************************************************)
(* SpecCaptions: the captions state of ComicDisplay.  App renders          *)
(* <ComicDisplay comic={currentComic}/> while the comic tab is active and  *)
(* currentComic is set; every setCurrentComic gives the component a new    *)
(* comic object.  app holds the component: the comic it was given last,    *)
(* whether it is mounted, its state captions and its ref lastIdRef, and    *)
(* what happened last ("mount", "unmount", "edit", "same": a comic of the  *)
(* same id and panel count was given, "other": another comic was given).   *)
(* While the component is unmounted, captions holds what its last instance *)
(* held; prev holds the captions held before the last step.  A render and  *)
(* the effects it schedules are one step.                                  *)
(***************************************************************************)
DisplayRevisions == {"cd1", "cd2"}

MaxComicId == 2

DisplayPanelCounts == {0, 2, 3}

\* the caption the script gave panel n of comic id; the script of comic 2
\* left out the caption of its first panel
scriptCaption(id, n) ==
    IF id = 2 /\ n = 1 THEN Undefined
    ELSE "caption " \o ToString(id) \o "." \o ToString(n)

\* the comic id with count panels, the first filled of them rendered
DisplayComic(id, count, filled) ==
    [id |-> id,
     panels |-> [n \in 1 .. count |->
                    [caption |-> scriptCaption(id, n),
                     imageUrl |-> IF n <= filled THEN "url" ELSE Undefined]]]

DisplayComics ==
    { DisplayComic(id, count, filled) :
        id \in 1 .. MaxComicId, count \in DisplayPanelCounts, filled \in 0 .. 3 }

CaptionEdits == {"", "edit"}

\* comic.panels.map(p => p.caption || "") and comic.panels.map(p => p.caption)
captionsOf(r, comic) ==
    [n \in DOMAIN comic.panels |->
        IF r = "cd1" /\ comic.panels[n].caption = Undefined THEN ""
        ELSE comic.panels[n].caption]

\* an effect that depends on the comic object itself
depsChanged_Object(r, old, new) == old # new

\* the dependency array of the effect changed between two renders
depsChanged(r, old, new) ==
    IF r = "cd1" THEN old.id # new.id
    ELSE old.id # new.id \/ Len(old.panels) # Len(new.panels)

\* the body of the effect, applied to the captions held
captionsEffect(r, prev, comic) ==
    IF r = "cd1" THEN captionsOf(r, comic)
    ELSE IF Len(comic.panels) > 0
              /\ (Len(prev) = 0 \/ Len(prev) # Len(comic.panels))
         THEN captionsOf(r, comic)
         ELSE prev

\* the test of lastIdRef in the body of the component ("cd2")
renderCaptions(r, d, comic) ==
    IF r = "cd2" /\ d.lastIdRef # comic.id
    THEN [d EXCEPT !.lastIdRef = comic.id, !.captions = captionsOf(r, comic)]
    ELSE d

\* next[index] = newText; index counts from 0
handleCaptionChange(r, captions, index, newText) ==
    IF r = "cd1"
    THEN IF index >= 0 /\ index < Len(captions)
         THEN [captions EXCEPT ![index + 1] = newText]
         ELSE captions
    ELSE [n \in 1 .. (IF index + 1 > Len(captions) THEN index + 1
                      ELSE Len(captions)) |->
             IF n = index + 1 THEN newText
             ELSE IF n <= Len(captions) THEN captions[n] ELSE Undefined]

InitCaptions ==
    /\ rev \in DisplayRevisions
    /\ rt = Unused /\ img = Unused /\ txt = Unused
    /\ runs = <<>> /\ svc = <<>> /\ env = Unused
    /\ app = [comic |-> DisplayComic(1, 0, 0), mounted |-> FALSE,
              captions |-> <<>>, lastIdRef |-> 0, last |-> "unmount",
              prev |-> <<>>]

\* the comic tab becomes active, or currentComic is set, and App renders
\* the component: useState([]), useRef(comic.id), then the effect
MountDisplay ==
    /\ ~app.mounted
    /\ \E comic \in DisplayComics :
          app' = [app EXCEPT !.comic = comic, !.mounted = TRUE,
                             !.lastIdRef = IF rev = "cd2" THEN comic.id ELSE 0,
                             !.captions = captionsEffect(rev, <<>>, comic),
                             !.last = "mount", !.prev = app.captions]
    /\ UNCHANGED <<rev, rt, img, txt, runs, svc, env>>

\* App leaves the comic tab or clears currentComic
UnmountDisplay ==
    /\ app.mounted
    /\ app' = [app EXCEPT !.mounted = FALSE, !.last = "unmount",
                           !.prev = app.captions]
    /\ UNCHANGED <<rev, rt, img, txt, runs, svc, env>>

\* setCurrentComic with another comic object: the component renders again
ShowComic ==
    /\ app.mounted
    /\ \E comic \in DisplayComics \ {app.comic} :
          LET d == renderCaptions(rev, app, comic)
              captions == IF depsChanged(rev, app.comic, comic)
                          THEN captionsEffect(rev, d.captions, comic)
                          ELSE d.captions
          IN  app' = [d EXCEPT !.comic = comic, !.captions = captions,
                               !.last = IF /\ comic.id = app.comic.id
                                           /\ Len(comic.panels)
                                                 = Len(app.comic.panels)
                                        THEN "same" ELSE "other",
                               !.prev = app.captions]
    /\ UNCHANGED <<rev, rt, img, txt, runs, svc, env>>

\* onChange of the textarea of a panel
EditCaption ==
    /\ app.mounted
    /\ \E idx \in 0 .. Len(app.comic.panels) - 1, newText \in CaptionEdits :
          app' = [app EXCEPT !.captions =
                                 handleCaptionChange(rev, @, idx, newText),
                             !.last = "edit", !.prev = app.captions]
    /\ UNCHANGED <<rev, rt, img, txt, runs, svc, env>>

NextCaptions == MountDisplay \/ UnmountDisplay \/ ShowComic \/ EditCaption

SpecCaptions == InitCaptions /\ [][NextCaptions]_vars

\* the comic given in this step has the id and the panel count of the one
\* given before
sameComic ==
    /\ app'.comic.id = app.comic.id
    /\ Len(app'.comic.panels) = Len(app.comic.panels)

\* C38: the captions edited by the user are kept when a later snapshot of the
\* same comic (same id, same number of panels) arrives; the captions change
\* only by an edit, or by a reset to the script's captions when a comic of
\* another id or another panel count is shown.
C38_CaptionsResetOnlyOnNewComic ==
    [][app'.captions # app.captions =>
          \/ app'.last = "edit"
          \/ ~sameComic /\ app'.captions = captionsOf(rev, app'.comic)]_vars

\* the same for the steps of one mounted component; the captions are set
\* to the script's captions also when the component is mounted anew, as
\* after a change of tab, whatever comic it is given
C38_CaptionsKeptWhileMounted ==
    [][/\ (app.mounted /\ app'.mounted /\ app'.captions # app.captions) =>
             \/ app'.last = "edit"
             \/ ~sameComic /\ app'.captions = captionsOf(rev, app'.comic)
       /\ app'.last = "same" => app'.captions = app.captions
       /\ app'.last = "mount" => app'.captions = captionsOf(rev, app'.comic)
       /\ app'.last = "unmount" => app'.captions = app.captions]_vars

\* a snapshot of the same comic arrived with its second panel rendered, and
\* the caption the user had edited is still held
C38_Witness ==
    /\ app.mounted /\ app.last = "same"
    /\ app.comic = DisplayComic(1, 3, 2)
    /\ app.captions = <<"edit", scriptCaption(1, 2), scriptCaption(1, 3)>>
    /\ app.prev = app.captions

\* the component was mounted anew on a comic of three panels while its
\* last instance held an edited caption for the first of three panels: the
\* captions are those of the script
C38_WitnessRemount ==
    /\ rev = "cd2" /\ app.mounted /\ app.last = "mount"
    /\ app.comic = DisplayComic(1, 3, 3)
    /\ app.prev = <<"edit", scriptCaption(1, 2), scriptCaption(1, 3)>>
    /\ app.captions = captionsOf(rev, app.comic)

(***************************************************************************)
(* A cancelled run next to the run that followed it (part_002).            *)
(***************************************************************************)
\* run r was cancelled and a newer run has started
superseded(r) == runs[r].aborted /\ r < Len(runs)

\* C39: after a run has been cancelled and a new run started, the cancelled
\* run never calls setCoolDownSeconds or setStatusMessage.
C39_CancelledRunNeverWrites ==
    \A r \in DOMAIN runs : runs[r].lateWrites = 0

\* what holds instead: no step of such a run changes the shared cooldown
\* counter or the status message; it calls neither setter, but for the
\* setCoolDownSeconds(0) after the cooldown loop when it was cancelled in its
\* cooldown, and then the counter is 0 already; while the new run counts
\* down its own cooldown, the counter shows the seconds the new run has left.
C39_CancelledRunChangesNothing ==
    [][/\ \A r \in DOMAIN runs :
             (superseded(r) /\ runs'[r] # runs[r]) =>
                 /\ app'.coolDownSeconds = app.coolDownSeconds
                 /\ app'.statusMessage = app.statusMessage
                 /\ runs'[r].lateWrites # runs[r].lateWrites =>
                       /\ runs[r].pc = "c_cool" /\ runs[r].atAbort.pc = "c_cool"
                       /\ runs'[r].lateWrites = 1 /\ app.coolDownSeconds = 0
                       /\ runs'[r].pc = "done"
       /\ \A r \in DOMAIN runs' :
             (r = Len(runs') /\ ~runs'[r].aborted /\ runs'[r].pc = "c_cool") =>
                 /\ runs'[r].timeLeft > 0
                 /\ app'.coolDownSeconds = runs'[r].timeLeft]_vars

\* a run cancelled during its cooldown returned after the next run had
\* started, having called setCoolDownSeconds(0) on its way out, and the next
\* run now counts down its own cooldown
C39_Witness ==
    /\ Len(runs) = 2
    /\ runs[1].aborted /\ runs[1].atAbort.pc = "c_cool"
    /\ runs[1].pc = "done" /\ runs[1].refAtEnd = 2 /\ runs[1].lateWrites = 1
    /\ ~runs[2].aborted /\ runs[2].pc = "c_cool"
    /\ app.coolDownSeconds = runs[2].timeLeft /\ runs[2].timeLeft > 0

====
